---- MODULE Spec2Model ----
(***************************************************************************)
(* holo-fn: the aggregation combinators all / sequence / partition of the  *)
(* Result, Either and Maybe families, modelled statement by statement.     *)
(*                                                                         *)
(* One call runs at a time.  A call is opened by a Call action that draws  *)
(* the input array, each loop iteration (or reduce callback) is one Step   *)
(* action, and the code after the loop is a Return action.  Every method   *)
(* call a combinator makes on an element of its input is appended to       *)
(* `log`, so that what was inspected, and in which order, is observable.   *)
(***************************************************************************)
EXTENDS Integers, Sequences, FiniteSets, TLC

(* ---------------------------- bounds ----------------------------------- *)
\* longest input array drawn by a Call action
MaxLen == 3
\* number of distinct primitive payloads
MaxAtom == 2

(* ------------------------- JavaScript values --------------------------- *)
\* A JavaScript value is a primitive (atom), an array of values, or
\* undefined.  All three share one record shape.
Atom(a) == [kind |-> "atom", atom |-> a, items |-> <<>>]
Arr(s) == [kind |-> "array", atom |-> 0, items |-> s]
Undefined == [kind |-> "undefined", atom |-> 0, items |-> <<>>]

Atoms == {Atom(a) : a \in 1..MaxAtom}
\* payloads a caller may put into a container: primitives, and one array
\* (a payload that is itself an array shows whether a collection is
\* flattened)
Payloads == Atoms \cup {Arr(<<Atom(1)>>)}

\* Array.prototype.push on a fresh copy of the array
Push(arr, v) == Append(arr, v)

(* ----------------------------- Result ---------------------------------- *)
\* new Ok(value) / new Err(error): the private readonly field
Ok(v) == [tag |-> "Ok", payload |-> v]
Err(e) == [tag |-> "Err", payload |-> e]
OkIsErr(r) == FALSE
ErrIsErr(r) == TRUE
OkExtract(r) == r.payload
ErrExtract(r) == r.payload
\* dynamic dispatch of result.isErr() / result.extract()
ResultIsErr(r) == IF r.tag = "Err" THEN ErrIsErr(r) ELSE OkIsErr(r)
ResultExtract(r) == IF r.tag = "Err" THEN ErrExtract(r) ELSE OkExtract(r)

Results == {Ok(v) : v \in Payloads} \cup {Err(e) : e \in Payloads}

(* ----------------------------- Either ---------------------------------- *)
Right(v) == [tag |-> "Right", payload |-> v]
Left(v) == [tag |-> "Left", payload |-> v]
RightIsLeft(e) == FALSE
LeftIsLeft(e) == TRUE
RightExtract(e) == e.payload
LeftExtract(e) == e.payload
EitherIsLeft(e) == IF e.tag = "Left" THEN LeftIsLeft(e) ELSE RightIsLeft(e)
EitherExtract(e) == IF e.tag = "Left" THEN LeftExtract(e) ELSE RightExtract(e)

Eithers == {Right(v) : v \in Payloads} \cup {Left(v) : v \in Payloads}

(* ------------------------------ Maybe ---------------------------------- *)
\* Nothing has no field; its slot in the record is never read
Just(v) == [tag |-> "Just", payload |-> v]
Nothing == [tag |-> "Nothing", payload |-> Undefined]
JustIsNothing(m) == FALSE
NothingIsNothing(m) == TRUE
JustExtract(m) == m.payload
NothingExtract(m) == Undefined
MaybeIsNothing(m) == IF m.tag = "Nothing" THEN NothingIsNothing(m) ELSE JustIsNothing(m)
MaybeExtract(m) == IF m.tag = "Nothing" THEN NothingExtract(m) ELSE JustExtract(m)

Maybes == {Just(v) : v \in Payloads} \cup {Nothing}

(* ----------------- containers that break the contract ------------------ *)
\* The combinators accept any object that implements the family's
\* interface.  Two such objects whose methods throw: one whose discriminant
\* throws, one that reports the success state and whose extract() throws.
\* The payload is the exception.
ThrowsOnQuery(e) == [tag |-> "ThrowsOnQuery", payload |-> e]
ThrowsOnExtract(e) == [tag |-> "ThrowsOnExtract", payload |-> e]
QueryThrows(c) == c.tag = "ThrowsOnQuery"
ExtractThrows(c) == c.tag = "ThrowsOnExtract"
Faulty == {ThrowsOnQuery(e) : e \in Atoms} \cup {ThrowsOnExtract(e) : e \in Atoms}

\* completion of a call by an exception that reached the caller
Thrown(e) == [tag |-> "throw", payload |-> e]

(* ------------------------------ state ---------------------------------- *)
VARIABLES
  pc,      \* "idle", "loop" (inside the for-of / reduce), "done" or "thrown"
  fn,      \* the combinator being run, "" when idle
  input,   \* the array passed to the combinator
  i,       \* 1-based position of the iterator in input
  values,  \* success accumulator (values / acc.oks / acc.rights)
  errors,  \* failure accumulator (errors / acc.errs / acc.lefts)
  ret,     \* the value returned, once pc = "done"; the exception, once "thrown"
  log      \* the method calls made on input elements, oldest first

\* state of the single-value methods and adapters (defined further down)
VARIABLES
  subject,  \* the container a chain of method calls starts from
  steps,    \* the method calls applied so far, oldest first
  current,  \* the value the chain has produced so far
  invoked,  \* the callbacks invoked so far, with their arguments
  promise   \* the promise an async adapter is waiting for

\* state of the interleaved calls (defined further down)
VARIABLES
  frames,   \* the local variables of each call in progress
  heap,     \* the arrays allocated so far, by address
  heapTop   \* number of arrays allocated so far

\* state of the whole-call comparisons (defined further down)
VARIABLES
  args,     \* the array the combinators are applied to
  outcomes  \* what each combinator returned on it, by name

callVars == <<pc, fn, input, i, values, errors, ret, log>>
methodVars == <<subject, steps, current, invoked, promise>>
frameVars == <<frames, heap, heapTop>>
runVars == <<args, outcomes>>
vars == <<callVars, methodVars, frameVars, runVars>>

\* the arrays of length 0..MaxLen over a family's containers
ArraysOf(S) == UNION {[1..n -> S] : n \in 0..MaxLen}

\* the arrays over a family's containers and the faulty ones that hold at
\* least one faulty container
FaultyArraysOf(S) ==
  {xs \in ArraysOf(S \cup Faulty) : \E k \in 1..Len(xs) : xs[k] \in Faulty}

NoReturn == [tag |-> "none", payload |-> Undefined]

Called(method, k) == [method |-> method, index |-> k]

NoFrames == <<>>

\* no promise is waited for
NoPromise == [state |-> "none", value |-> Undefined]
\* nothing has been returned by any combinator
NoResults == <<>>

Init ==
  /\ pc = "idle"
  /\ fn = ""
  /\ input = <<>>
  /\ i = 1
  /\ values = <<>>
  /\ errors = <<>>
  /\ ret = NoReturn
  /\ log = <<>>
  /\ subject = NoReturn
  /\ steps = <<>>
  /\ current = NoReturn
  /\ invoked = <<>>
  /\ promise = NoPromise
  /\ frames = NoFrames
  /\ heap = <<>>
  /\ heapTop = 0
  /\ args = <<>>
  /\ outcomes = NoResults

\* entry of a combinator: bind the parameter, allocate the accumulators
Enter(name, xs) ==
  /\ pc' = "loop"
  /\ fn' = name
  /\ input' = xs
  /\ i' = 1
  /\ values' = <<>>
  /\ errors' = <<>>
  /\ ret' = NoReturn
  /\ log' = <<>>
  /\ UNCHANGED <<methodVars, frameVars, runVars>>

\* the caller takes the returned value (or catches the exception); the
\* next call may start
Finish ==
  /\ pc \in {"done", "thrown"}
  /\ pc' = "idle"
  /\ fn' = ""
  /\ input' = <<>>
  /\ i' = 1
  /\ values' = <<>>
  /\ errors' = <<>>
  /\ ret' = NoReturn
  /\ log' = <<>>
  /\ UNCHANGED <<methodVars, frameVars, runVars>>

\* a method call on input[i] throws: there is no try/catch in any
\* combinator, so the exception leaves the loop and the function
Raise(c, calls) ==
  /\ pc' = "thrown"
  /\ ret' = Thrown(c.payload)
  /\ log' = log \o calls
  /\ UNCHANGED <<i, values, errors>>

(* ---------------------------- Result.all ---------------------------- *)
ResultAllCall ==
  /\ pc = "idle"
  /\ \E xs \in ArraysOf(Results) : Enter("Result.all", xs)

\* mutant: an error already collected is not collected again
ResultAllStep_Dedup ==
  /\ pc = "loop" /\ fn = "Result.all" /\ i <= Len(input)
  /\ LET result == input[i] IN
       IF QueryThrows(result)
       THEN Raise(result, <<Called("isErr", i)>>)
       ELSE IF ExtractThrows(result)
       THEN Raise(result, <<Called("isErr", i), Called("extract", i)>>)
       ELSE
         /\ IF ResultIsErr(result)
            THEN /\ errors' = IF \E n \in 1..Len(errors) : errors[n] = ResultExtract(result)
                              THEN errors
                              ELSE Push(errors, ResultExtract(result))
                 /\ values' = values
            ELSE /\ values' = Push(values, ResultExtract(result))
                 /\ errors' = errors
         /\ log' = log \o <<Called("isErr", i), Called("extract", i)>>
         /\ i' = i + 1
         /\ UNCHANGED <<pc, ret>>
  /\ UNCHANGED <<fn, input>>
  /\ UNCHANGED <<methodVars, frameVars, runVars>>

\* mutant: the errors are kept sorted by value
ResultAllStep_Sorted ==
  /\ pc = "loop" /\ fn = "Result.all" /\ i <= Len(input)
  /\ LET result == input[i] IN
       IF QueryThrows(result)
       THEN Raise(result, <<Called("isErr", i)>>)
       ELSE IF ExtractThrows(result)
       THEN Raise(result, <<Called("isErr", i), Called("extract", i)>>)
       ELSE
         /\ IF ResultIsErr(result)
            THEN /\ errors' = LET e == ResultExtract(result)
                                  Below(x) == x.atom <= e.atom
                                  Above(x) == x.atom > e.atom
                              IN SelectSeq(errors, Below) \o <<e>> \o SelectSeq(errors, Above)
                 /\ values' = values
            ELSE /\ values' = Push(values, ResultExtract(result))
                 /\ errors' = errors
         /\ log' = log \o <<Called("isErr", i), Called("extract", i)>>
         /\ i' = i + 1
         /\ UNCHANGED <<pc, ret>>
  /\ UNCHANGED <<fn, input>>
  /\ UNCHANGED <<methodVars, frameVars, runVars>>

\* mutant: a value that is an array is spread into the accumulator
ResultAllStep_Spread ==
  /\ pc = "loop" /\ fn = "Result.all" /\ i <= Len(input)
  /\ LET result == input[i] IN
       IF QueryThrows(result)
       THEN Raise(result, <<Called("isErr", i)>>)
       ELSE IF ExtractThrows(result)
       THEN Raise(result, <<Called("isErr", i), Called("extract", i)>>)
       ELSE
         /\ IF ResultIsErr(result)
            THEN /\ errors' = Push(errors, ResultExtract(result))
                 /\ values' = values
            ELSE /\ values' = IF ResultExtract(result).kind = "array"
                              THEN values \o ResultExtract(result).items
                              ELSE Push(values, ResultExtract(result))
                 /\ errors' = errors
         /\ log' = log \o <<Called("isErr", i), Called("extract", i)>>
         /\ i' = i + 1
         /\ UNCHANGED <<pc, ret>>
  /\ UNCHANGED <<fn, input>>
  /\ UNCHANGED <<methodVars, frameVars, runVars>>

\* one iteration of the for-of loop
ResultAllStep ==
  /\ pc = "loop" /\ fn = "Result.all" /\ i <= Len(input)
  /\ LET result == input[i] IN
       IF QueryThrows(result)
       THEN Raise(result, <<Called("isErr", i)>>)
       ELSE IF ExtractThrows(result)
       THEN Raise(result, <<Called("isErr", i), Called("extract", i)>>)
       ELSE
         /\ IF ResultIsErr(result)
            THEN /\ errors' = Push(errors, ResultExtract(result))
                 /\ values' = values
            ELSE /\ values' = Push(values, ResultExtract(result))
                 /\ errors' = errors
         /\ log' = log \o <<Called("isErr", i), Called("extract", i)>>
         /\ i' = i + 1
         /\ UNCHANGED <<pc, ret>>
  /\ UNCHANGED <<fn, input>>
  /\ UNCHANGED <<methodVars, frameVars, runVars>>

\* mutant: the test reads errors.length >= 0
ResultAllReturn_AlwaysErr ==
  /\ pc = "loop" /\ fn = "Result.all" /\ i > Len(input)
  /\ ret' = IF Len(errors) >= 0 THEN Err(Arr(errors)) ELSE Ok(Arr(values))
  /\ pc' = "done"
  /\ UNCHANGED <<fn, input, i, values, errors, log>>
  /\ UNCHANGED <<methodVars, frameVars, runVars>>

\* mutant: a single error is returned bare, not inside the array
ResultAllReturn_UnwrapSingle ==
  /\ pc = "loop" /\ fn = "Result.all" /\ i > Len(input)
  /\ ret' = IF Len(errors) > 0
            THEN (IF Len(errors) = 1 THEN Err(errors[1]) ELSE Err(Arr(errors)))
            ELSE Ok(Arr(values))
  /\ pc' = "done"
  /\ UNCHANGED <<fn, input, i, values, errors, log>>
  /\ UNCHANGED <<methodVars, frameVars, runVars>>

ResultAllReturn ==
  /\ pc = "loop" /\ fn = "Result.all" /\ i > Len(input)
  /\ ret' = IF Len(errors) > 0 THEN Err(Arr(errors)) ELSE Ok(Arr(values))
  /\ pc' = "done"
  /\ UNCHANGED <<fn, input, i, values, errors, log>>
  /\ UNCHANGED <<methodVars, frameVars, runVars>>

(* ------------------------- Result.sequence -------------------------- *)
ResultSequenceCall ==
  /\ pc = "idle"
  /\ \E xs \in ArraysOf(Results) : Enter("Result.sequence", xs)

\* mutant: the first error is returned inside an array, as all does
ResultSequenceStep_Wrap ==
  /\ pc = "loop" /\ fn = "Result.sequence" /\ i <= Len(input)
  /\ LET result == input[i] IN
       IF QueryThrows(result)
       THEN Raise(result, <<Called("isErr", i)>>)
       ELSE IF ExtractThrows(result)
       THEN Raise(result, <<Called("isErr", i), Called("extract", i)>>)
       ELSE
         /\ IF ResultIsErr(result)
            THEN /\ ret' = Err(Arr(<<ResultExtract(result)>>))
                 /\ pc' = "done"
                 /\ UNCHANGED <<values, i>>
            ELSE /\ values' = Push(values, ResultExtract(result))
                 /\ i' = i + 1
                 /\ UNCHANGED <<ret, pc>>
         /\ log' = log \o <<Called("isErr", i), Called("extract", i)>>
         /\ UNCHANGED errors
  /\ UNCHANGED <<fn, input>>
  /\ UNCHANGED <<methodVars, frameVars, runVars>>

\* one iteration of the for-of loop; the return inside the loop ends the call
\* variant: the failure is remembered and the loop goes on to the end
ResultSequenceStep_Exhaustive ==
  /\ pc = "loop" /\ fn = "Result.sequence" /\ i <= Len(input)
  /\ LET result == input[i] IN
       IF QueryThrows(result)
       THEN Raise(result, <<Called("isErr", i)>>)
       ELSE IF ExtractThrows(result)
       THEN Raise(result, <<Called("isErr", i), Called("extract", i)>>)
       ELSE
         /\ IF ResultIsErr(result)
            THEN /\ ret' = Err(ResultExtract(result))
                 /\ pc' = IF i = Len(input) THEN "done" ELSE pc
                 /\ i' = IF i = Len(input) THEN i ELSE i + 1
                 /\ UNCHANGED values
            ELSE /\ values' = Push(values, ResultExtract(result))
                 /\ i' = i + 1
                 /\ UNCHANGED <<ret, pc>>
         /\ log' = log \o <<Called("isErr", i), Called("extract", i)>>
         /\ UNCHANGED errors
  /\ UNCHANGED <<fn, input>>
  /\ UNCHANGED <<methodVars, frameVars, runVars>>

ResultSequenceStep ==
  /\ pc = "loop" /\ fn = "Result.sequence" /\ i <= Len(input)
  /\ LET result == input[i] IN
       IF QueryThrows(result)
       THEN Raise(result, <<Called("isErr", i)>>)
       ELSE IF ExtractThrows(result)
       THEN Raise(result, <<Called("isErr", i), Called("extract", i)>>)
       ELSE
         /\ IF ResultIsErr(result)
            THEN /\ ret' = Err(ResultExtract(result))
                 /\ pc' = "done"
                 /\ UNCHANGED <<values, i>>
            ELSE /\ values' = Push(values, ResultExtract(result))
                 /\ i' = i + 1
                 /\ UNCHANGED <<ret, pc>>
         /\ log' = log \o <<Called("isErr", i), Called("extract", i)>>
         /\ UNCHANGED errors
  /\ UNCHANGED <<fn, input>>
  /\ UNCHANGED <<methodVars, frameVars, runVars>>

ResultSequenceReturn ==
  /\ pc = "loop" /\ fn = "Result.sequence" /\ i > Len(input)
  /\ ret' = Ok(Arr(values))
  /\ pc' = "done"
  /\ UNCHANGED <<fn, input, i, values, errors, log>>
  /\ UNCHANGED <<methodVars, frameVars, runVars>>

(* ------------------------- Result.partition ------------------------- *)
ResultPartitionCall ==
  /\ pc = "idle"
  /\ \E xs \in ArraysOf(Results) : Enter("Result.partition", xs)

\* mutant: the branches of the callback are swapped
ResultPartitionStep_Swapped ==
  /\ pc = "loop" /\ fn = "Result.partition" /\ i <= Len(input)
  /\ LET result == input[i] IN
       IF QueryThrows(result)
       THEN Raise(result, <<Called("isErr", i)>>)
       ELSE IF ExtractThrows(result)
       THEN Raise(result, <<Called("isErr", i), Called("extract", i)>>)
       ELSE
         /\ IF ResultIsErr(result)
            THEN /\ values' = Push(values, ResultExtract(result))
                 /\ errors' = errors
            ELSE /\ errors' = Push(errors, ResultExtract(result))
                 /\ values' = values
         /\ log' = log \o <<Called("isErr", i), Called("extract", i)>>
         /\ i' = i + 1
         /\ UNCHANGED <<pc, ret>>
  /\ UNCHANGED <<fn, input>>
  /\ UNCHANGED <<methodVars, frameVars, runVars>>

\* mutant: the callback catches what the element throws and files it as an error
ResultPartitionStep_Catch ==
  /\ pc = "loop" /\ fn = "Result.partition" /\ i <= Len(input)
  /\ LET result == input[i] IN
       IF QueryThrows(result)
       THEN /\ errors' = Push(errors, result.payload)
            /\ log' = Append(log, Called("isErr", i))
            /\ i' = i + 1
            /\ UNCHANGED <<values, pc, ret>>
       ELSE IF ExtractThrows(result)
       THEN /\ errors' = Push(errors, result.payload)
            /\ log' = log \o <<Called("isErr", i), Called("extract", i)>>
            /\ i' = i + 1
            /\ UNCHANGED <<values, pc, ret>>
       ELSE
         /\ IF ResultIsErr(result)
            THEN /\ errors' = Push(errors, ResultExtract(result))
                 /\ values' = values
            ELSE /\ values' = Push(values, ResultExtract(result))
                 /\ errors' = errors
         /\ log' = log \o <<Called("isErr", i), Called("extract", i)>>
         /\ i' = i + 1
         /\ UNCHANGED <<pc, ret>>
  /\ UNCHANGED <<fn, input>>
  /\ UNCHANGED <<methodVars, frameVars, runVars>>

\* one invocation of the reduce callback; values is acc.oks, errors is acc.errs
\* variant: the payload is read before the state is asked for
ResultPartitionStep_ExtractFirst ==
  /\ pc = "loop" /\ fn = "Result.partition" /\ i <= Len(input)
  /\ LET result == input[i] IN
       IF QueryThrows(result)
       THEN Raise(result, <<Called("isErr", i)>>)
       ELSE IF ExtractThrows(result)
       THEN Raise(result, <<Called("isErr", i), Called("extract", i)>>)
       ELSE
         /\ IF ResultIsErr(result)
            THEN /\ errors' = Push(errors, ResultExtract(result))
                 /\ values' = values
            ELSE /\ values' = Push(values, ResultExtract(result))
                 /\ errors' = errors
         /\ log' = log \o <<Called("extract", i), Called("isErr", i)>>
         /\ i' = i + 1
         /\ UNCHANGED <<pc, ret>>
  /\ UNCHANGED <<fn, input>>
  /\ UNCHANGED <<methodVars, frameVars, runVars>>

ResultPartitionStep ==
  /\ pc = "loop" /\ fn = "Result.partition" /\ i <= Len(input)
  /\ LET result == input[i] IN
       IF QueryThrows(result)
       THEN Raise(result, <<Called("isErr", i)>>)
       ELSE IF ExtractThrows(result)
       THEN Raise(result, <<Called("isErr", i), Called("extract", i)>>)
       ELSE
         /\ IF ResultIsErr(result)
            THEN /\ errors' = Push(errors, ResultExtract(result))
                 /\ values' = values
            ELSE /\ values' = Push(values, ResultExtract(result))
                 /\ errors' = errors
         /\ log' = log \o <<Called("isErr", i), Called("extract", i)>>
         /\ i' = i + 1
         /\ UNCHANGED <<pc, ret>>
  /\ UNCHANGED <<fn, input>>
  /\ UNCHANGED <<methodVars, frameVars, runVars>>

\* reduce returns the accumulator object
ResultPartitionReturn ==
  /\ pc = "loop" /\ fn = "Result.partition" /\ i > Len(input)
  /\ ret' = [oks |-> Arr(values), errs |-> Arr(errors)]
  /\ pc' = "done"
  /\ UNCHANGED <<fn, input, i, values, errors, log>>
  /\ UNCHANGED <<methodVars, frameVars, runVars>>

(* ---------------------------- Either.all ---------------------------- *)
EitherAllCall ==
  /\ pc = "idle"
  /\ \E xs \in ArraysOf(Eithers) : Enter("Either.all", xs)

\* mutant: values are added at the front (unshift for push)
EitherAllStep_Unshift ==
  /\ pc = "loop" /\ fn = "Either.all" /\ i <= Len(input)
  /\ LET either == input[i] IN
       IF QueryThrows(either)
       THEN Raise(either, <<Called("isLeft", i)>>)
       ELSE IF ExtractThrows(either)
       THEN Raise(either, <<Called("isLeft", i), Called("extract", i)>>)
       ELSE
         /\ IF EitherIsLeft(either)
            THEN /\ errors' = Push(errors, EitherExtract(either))
                 /\ values' = values
            ELSE /\ values' = <<EitherExtract(either)>> \o values
                 /\ errors' = errors
         /\ log' = log \o <<Called("isLeft", i), Called("extract", i)>>
         /\ i' = i + 1
         /\ UNCHANGED <<pc, ret>>
  /\ UNCHANGED <<fn, input>>
  /\ UNCHANGED <<methodVars, frameVars, runVars>>

\* mutant: the loop returns at the first Left, as sequence does
EitherAllStep_FailFast ==
  /\ pc = "loop" /\ fn = "Either.all" /\ i <= Len(input)
  /\ LET either == input[i] IN
       IF QueryThrows(either)
       THEN Raise(either, <<Called("isLeft", i)>>)
       ELSE IF ExtractThrows(either)
       THEN Raise(either, <<Called("isLeft", i), Called("extract", i)>>)
       ELSE
         /\ IF EitherIsLeft(either)
            THEN /\ ret' = Left(Arr(<<EitherExtract(either)>>))
                 /\ pc' = "done"
                 /\ UNCHANGED <<values, errors, i>>
            ELSE /\ values' = Push(values, EitherExtract(either))
                 /\ i' = i + 1
                 /\ UNCHANGED <<ret, pc, errors>>
         /\ log' = log \o <<Called("isLeft", i), Called("extract", i)>>
  /\ UNCHANGED <<fn, input>>
  /\ UNCHANGED <<methodVars, frameVars, runVars>>

\* one iteration of the for-of loop
EitherAllStep ==
  /\ pc = "loop" /\ fn = "Either.all" /\ i <= Len(input)
  /\ LET either == input[i] IN
       IF QueryThrows(either)
       THEN Raise(either, <<Called("isLeft", i)>>)
       ELSE IF ExtractThrows(either)
       THEN Raise(either, <<Called("isLeft", i), Called("extract", i)>>)
       ELSE
         /\ IF EitherIsLeft(either)
            THEN /\ errors' = Push(errors, EitherExtract(either))
                 /\ values' = values
            ELSE /\ values' = Push(values, EitherExtract(either))
                 /\ errors' = errors
         /\ log' = log \o <<Called("isLeft", i), Called("extract", i)>>
         /\ i' = i + 1
         /\ UNCHANGED <<pc, ret>>
  /\ UNCHANGED <<fn, input>>
  /\ UNCHANGED <<methodVars, frameVars, runVars>>

EitherAllReturn ==
  /\ pc = "loop" /\ fn = "Either.all" /\ i > Len(input)
  /\ ret' = IF Len(errors) > 0 THEN Left(Arr(errors)) ELSE Right(Arr(values))
  /\ pc' = "done"
  /\ UNCHANGED <<fn, input, i, values, errors, log>>
  /\ UNCHANGED <<methodVars, frameVars, runVars>>

(* ------------------------- Either.sequence -------------------------- *)
EitherSequenceCall ==
  /\ pc = "idle"
  /\ \E xs \in ArraysOf(Eithers) : Enter("Either.sequence", xs)

\* mutant: a Left does not end the loop; the iteration goes on
EitherSequenceStep_NoReturn ==
  /\ pc = "loop" /\ fn = "Either.sequence" /\ i <= Len(input)
  /\ LET either == input[i] IN
       IF QueryThrows(either)
       THEN Raise(either, <<Called("isLeft", i)>>)
       ELSE IF ExtractThrows(either)
       THEN Raise(either, <<Called("isLeft", i), Called("extract", i)>>)
       ELSE
         /\ IF EitherIsLeft(either)
            THEN /\ ret' = IF ret = NoReturn THEN Left(EitherExtract(either)) ELSE ret
                 /\ pc' = IF i = Len(input) THEN "done" ELSE "loop"
                 /\ i' = i + 1
                 /\ UNCHANGED values
            ELSE /\ values' = Push(values, EitherExtract(either))
                 /\ i' = i + 1
                 /\ UNCHANGED <<ret, pc>>
         /\ log' = log \o <<Called("isLeft", i), Called("extract", i)>>
         /\ UNCHANGED errors
  /\ UNCHANGED <<fn, input>>
  /\ UNCHANGED <<methodVars, frameVars, runVars>>

\* one iteration of the for-of loop; the return inside the loop ends the call
EitherSequenceStep ==
  /\ pc = "loop" /\ fn = "Either.sequence" /\ i <= Len(input)
  /\ LET either == input[i] IN
       IF QueryThrows(either)
       THEN Raise(either, <<Called("isLeft", i)>>)
       ELSE IF ExtractThrows(either)
       THEN Raise(either, <<Called("isLeft", i), Called("extract", i)>>)
       ELSE
         /\ IF EitherIsLeft(either)
            THEN /\ ret' = Left(EitherExtract(either))
                 /\ pc' = "done"
                 /\ UNCHANGED <<values, i>>
            ELSE /\ values' = Push(values, EitherExtract(either))
                 /\ i' = i + 1
                 /\ UNCHANGED <<ret, pc>>
         /\ log' = log \o <<Called("isLeft", i), Called("extract", i)>>
         /\ UNCHANGED errors
  /\ UNCHANGED <<fn, input>>
  /\ UNCHANGED <<methodVars, frameVars, runVars>>

\* mutant: the last value is dropped from the returned array
EitherSequenceReturn_DropLast ==
  /\ pc = "loop" /\ fn = "Either.sequence" /\ i > Len(input)
  /\ ret' = Right(Arr(SubSeq(values, 1, Len(values) - 1)))
  /\ pc' = "done"
  /\ UNCHANGED <<fn, input, i, values, errors, log>>
  /\ UNCHANGED <<methodVars, frameVars, runVars>>

EitherSequenceReturn ==
  /\ pc = "loop" /\ fn = "Either.sequence" /\ i > Len(input)
  /\ ret' = Right(Arr(values))
  /\ pc' = "done"
  /\ UNCHANGED <<fn, input, i, values, errors, log>>
  /\ UNCHANGED <<methodVars, frameVars, runVars>>

(* ------------------------- Either.partition ------------------------- *)
EitherPartitionCall ==
  /\ pc = "idle"
  /\ \E xs \in ArraysOf(Eithers) : Enter("Either.partition", xs)

\* mutant: the elements are taken off the input array with shift()
EitherPartitionStep_Shift ==
  /\ pc = "loop" /\ fn = "Either.partition" /\ i <= Len(input)
  /\ LET either == input[i] IN
       IF QueryThrows(either)
       THEN Raise(either, <<Called("isLeft", i)>>) /\ UNCHANGED input
       ELSE IF ExtractThrows(either)
       THEN Raise(either, <<Called("isLeft", i), Called("extract", i)>>) /\ UNCHANGED input
       ELSE
         /\ IF EitherIsLeft(either)
            THEN /\ errors' = Push(errors, EitherExtract(either))
                 /\ values' = values
            ELSE /\ values' = Push(values, EitherExtract(either))
                 /\ errors' = errors
         /\ log' = log \o <<Called("isLeft", i), Called("extract", i)>>
         /\ input' = Tail(input)
         /\ UNCHANGED <<i, pc, ret>>
  /\ UNCHANGED fn
  /\ UNCHANGED <<methodVars, frameVars, runVars>>

\* one invocation of the reduce callback; values is acc.rights, errors is acc.lefts
EitherPartitionStep ==
  /\ pc = "loop" /\ fn = "Either.partition" /\ i <= Len(input)
  /\ LET either == input[i] IN
       IF QueryThrows(either)
       THEN Raise(either, <<Called("isLeft", i)>>)
       ELSE IF ExtractThrows(either)
       THEN Raise(either, <<Called("isLeft", i), Called("extract", i)>>)
       ELSE
         /\ IF EitherIsLeft(either)
            THEN /\ errors' = Push(errors, EitherExtract(either))
                 /\ values' = values
            ELSE /\ values' = Push(values, EitherExtract(either))
                 /\ errors' = errors
         /\ log' = log \o <<Called("isLeft", i), Called("extract", i)>>
         /\ i' = i + 1
         /\ UNCHANGED <<pc, ret>>
  /\ UNCHANGED <<fn, input>>
  /\ UNCHANGED <<methodVars, frameVars, runVars>>

EitherPartitionReturn ==
  /\ pc = "loop" /\ fn = "Either.partition" /\ i > Len(input)
  /\ ret' = [lefts |-> Arr(errors), rights |-> Arr(values)]
  /\ pc' = "done"
  /\ UNCHANGED <<fn, input, i, values, errors, log>>
  /\ UNCHANGED <<methodVars, frameVars, runVars>>

(* ---------------------------- Maybe.all ----------------------------- *)
MaybeAllCall ==
  /\ pc = "idle"
  /\ \E xs \in ArraysOf(Maybes) : Enter("Maybe.all", xs)

\* mutant: a Nothing is skipped instead of ending the call
MaybeAllStep_SkipNothing ==
  /\ pc = "loop" /\ fn = "Maybe.all" /\ i <= Len(input)
  /\ LET maybe == input[i] IN
       IF QueryThrows(maybe)
       THEN Raise(maybe, <<Called("isNothing", i)>>)
       ELSE IF ExtractThrows(maybe)
       THEN Raise(maybe, <<Called("isNothing", i), Called("extract", i)>>)
       ELSE
         /\ IF MaybeIsNothing(maybe)
            THEN /\ i' = i + 1
                 /\ log' = Append(log, Called("isNothing", i))
                 /\ UNCHANGED <<values, ret, pc>>
            ELSE /\ values' = Push(values, MaybeExtract(maybe))
                 /\ i' = i + 1
                 /\ log' = log \o <<Called("isNothing", i), Called("extract", i)>>
                 /\ UNCHANGED <<ret, pc>>
         /\ UNCHANGED errors
  /\ UNCHANGED <<fn, input>>
  /\ UNCHANGED <<methodVars, frameVars, runVars>>

\* one iteration of the for-of loop; a Nothing ends the call at once,
\* before extract is reached
MaybeAllStep ==
  /\ pc = "loop" /\ fn = "Maybe.all" /\ i <= Len(input)
  /\ LET maybe == input[i] IN
       IF QueryThrows(maybe)
       THEN Raise(maybe, <<Called("isNothing", i)>>)
       ELSE IF ExtractThrows(maybe)
       THEN Raise(maybe, <<Called("isNothing", i), Called("extract", i)>>)
       ELSE
         /\ IF MaybeIsNothing(maybe)
            THEN /\ ret' = Nothing
                 /\ pc' = "done"
                 /\ log' = Append(log, Called("isNothing", i))
                 /\ UNCHANGED <<values, i>>
            ELSE /\ values' = Push(values, MaybeExtract(maybe))
                 /\ i' = i + 1
                 /\ log' = log \o <<Called("isNothing", i), Called("extract", i)>>
                 /\ UNCHANGED <<ret, pc>>
         /\ UNCHANGED errors
  /\ UNCHANGED <<fn, input>>
  /\ UNCHANGED <<methodVars, frameVars, runVars>>

MaybeAllReturn ==
  /\ pc = "loop" /\ fn = "Maybe.all" /\ i > Len(input)
  /\ ret' = Just(Arr(values))
  /\ pc' = "done"
  /\ UNCHANGED <<fn, input, i, values, errors, log>>
  /\ UNCHANGED <<methodVars, frameVars, runVars>>

(* ----------- calls on arrays that hold faulty containers ------------ *)
ResultFaultyCall ==
  /\ pc = "idle"
  /\ \E name \in {"Result.all", "Result.sequence", "Result.partition"} :
       \E xs \in FaultyArraysOf(Results) : Enter(name, xs)

EitherFaultyCall ==
  /\ pc = "idle"
  /\ \E name \in {"Either.all", "Either.sequence", "Either.partition"} :
       \E xs \in FaultyArraysOf(Eithers) : Enter(name, xs)

MaybeFaultyCall ==
  /\ pc = "idle"
  /\ \E xs \in FaultyArraysOf(Maybes) : Enter("Maybe.all", xs)

(* -------------------------- specification --------------------------- *)
Next ==
  \/ ResultAllCall
  \/ ResultAllStep
  \/ ResultAllReturn
  \/ ResultSequenceCall
  \/ ResultSequenceStep
  \/ ResultSequenceReturn
  \/ ResultPartitionCall
  \/ ResultPartitionStep
  \/ ResultPartitionReturn
  \/ EitherAllCall
  \/ EitherAllStep
  \/ EitherAllReturn
  \/ EitherSequenceCall
  \/ EitherSequenceStep
  \/ EitherSequenceReturn
  \/ EitherPartitionCall
  \/ EitherPartitionStep
  \/ EitherPartitionReturn
  \/ MaybeAllCall
  \/ MaybeAllStep
  \/ MaybeAllReturn
  \/ Finish

Spec == Init /\ [][Next]_vars

\* the same calls, and calls whose input holds faulty containers
NextFaulty ==
  \/ Next
  \/ ResultFaultyCall
  \/ EitherFaultyCall
  \/ MaybeFaultyCall

SpecFaulty == Init /\ [][NextFaulty]_vars

\* the statements of a call that is running: loop bodies and returns
Running ==
  \/ ResultAllStep \/ ResultAllReturn
  \/ ResultSequenceStep \/ ResultSequenceReturn
  \/ ResultPartitionStep \/ ResultPartitionReturn
  \/ EitherAllStep \/ EitherAllReturn
  \/ EitherSequenceStep \/ EitherSequenceReturn
  \/ EitherPartitionStep \/ EitherPartitionReturn
  \/ MaybeAllStep \/ MaybeAllReturn

\* synchronous code keeps running: a call that can take a step takes it
SpecFair == Spec /\ WF_vars(Running)

(* ================= single-value methods and adapters =================== *)
\* longest chain of validate calls
MaxChain == 2

\* An array held by reference: ref names the object, items its contents.
\* Two arrays with the same contents are different objects.
ArrAt(ref, s) == [kind |-> "array", atom |-> ref, items |-> s]

\* a === b: primitives by value, arrays by reference
\* variant: arrays compared by contents
StrictEquals_Deep(a, b) ==
  a.kind = b.kind /\ (IF a.kind = "array" THEN a.items = b.items ELSE a.atom = b.atom)
StrictEquals(a, b) == a.kind = b.kind /\ a.atom = b.atom

\* the payloads of the containers that are compared with equals
ComparedPayloads == Atoms \cup {ArrAt(1, <<Atom(1)>>), ArrAt(2, <<Atom(1)>>)}

\* the boolean a method returns
Bool(b) == [tag |-> IF b THEN "true" ELSE "false", payload |-> Undefined]

\* callbacks are total functions over the payloads; their invocations are
\* recorded with the argument they received
MapFns == [Payloads -> Payloads]
Invocation(callback, v) == [callback |-> callback, arg |-> v]
\* what a method call yields: its return value and the callbacks it invoked
Yield(v, calls) == [result |-> v, invoked |-> calls]
\* one entry of steps
Step(method, f, a) == [method |-> method, fn |-> f, arg |-> a]

\* predicates of validate, each given by the set of values it accepts
Predicates == {Payloads, {}, Atoms, {Atom(1)}}

(* ------------------------------ Ok, Err -------------------------------- *)
OkIsOk(r) == TRUE
ErrIsOk(r) == FALSE
ResultIsOk(r) == IF r.tag = "Err" THEN ErrIsOk(r) ELSE OkIsOk(r)

OkMap(r, f) == Yield(Ok(f[r.payload]), <<Invocation("fn", r.payload)>>)
ErrMap(r, f) == Yield(Err(r.payload), <<>>)
ResultMap(r, f) == IF r.tag = "Err" THEN ErrMap(r, f) ELSE OkMap(r, f)

OkMapErr(r, f) == Yield(Ok(r.payload), <<>>)
ErrMapErr(r, f) == Yield(Err(f[r.payload]), <<Invocation("fn", r.payload)>>)
ResultMapErr(r, f) == IF r.tag = "Err" THEN ErrMapErr(r, f) ELSE OkMapErr(r, f)

OkChain(r, f) == Yield(f[r.payload], <<Invocation("fn", r.payload)>>)
\* variant: the failure's payload is fed to the callback
ErrChain_Calls(r, f) == Yield(f[r.payload], <<Invocation("fn", r.payload)>>)
ErrChain(r, f) == Yield(Err(r.payload), <<>>)
ResultChain(r, f) == IF r.tag = "Err" THEN ErrChain(r, f) ELSE OkChain(r, f)

OkValidate(r, predicate, error) ==
  Yield(IF r.payload \in predicate THEN r ELSE Err(error),
        <<Invocation("predicate", r.payload)>>)
ErrValidate(r, predicate, error) == Yield(r, <<>>)
ResultValidate(r, predicate, error) ==
  IF r.tag = "Err" THEN ErrValidate(r, predicate, error) ELSE OkValidate(r, predicate, error)

OkEquals(r, other) ==
  IF ResultIsOk(other) THEN StrictEquals(r.payload, ResultExtract(other)) ELSE FALSE
\* variant: any two failures are equal
ErrEquals_AnyErr(r, other) == ResultIsErr(other)
ErrEquals(r, other) ==
  IF ResultIsErr(other) THEN StrictEquals(r.payload, ResultExtract(other)) ELSE FALSE
ResultEquals(r, other) == IF r.tag = "Err" THEN ErrEquals(r, other) ELSE OkEquals(r, other)

(* ----------------------------- Right, Left ----------------------------- *)
RightIsRight(e) == TRUE
LeftIsRight(e) == FALSE
EitherIsRight(e) == IF e.tag = "Left" THEN LeftIsRight(e) ELSE RightIsRight(e)

RightMap(e, f) == Yield(Right(f[e.payload]), <<Invocation("fn", e.payload)>>)
LeftMap(e, f) == Yield(Left(e.payload), <<>>)
EitherMap(e, f) == IF e.tag = "Left" THEN LeftMap(e, f) ELSE RightMap(e, f)

RightMapLeft(e, f) == Yield(Right(e.payload), <<>>)
LeftMapLeft(e, f) == Yield(Left(f[e.payload]), <<Invocation("fn", e.payload)>>)
EitherMapLeft(e, f) == IF e.tag = "Left" THEN LeftMapLeft(e, f) ELSE RightMapLeft(e, f)

RightChain(e, f) == Yield(f[e.payload], <<Invocation("fn", e.payload)>>)
LeftChain(e, f) == Yield(Left(e.payload), <<>>)
EitherChain(e, f) == IF e.tag = "Left" THEN LeftChain(e, f) ELSE RightChain(e, f)

RightValidate(e, predicate, leftValue) ==
  Yield(IF e.payload \in predicate THEN e ELSE Left(leftValue),
        <<Invocation("predicate", e.payload)>>)
\* variant: a failure is overwritten by the error of the next validation
LeftValidate_Overwrite(e, predicate, leftValue) == Yield(Left(leftValue), <<>>)
LeftValidate(e, predicate, leftValue) == Yield(e, <<>>)
EitherValidate(e, predicate, leftValue) ==
  IF e.tag = "Left" THEN LeftValidate(e, predicate, leftValue)
  ELSE RightValidate(e, predicate, leftValue)

RightEquals(e, other) ==
  IF EitherIsRight(other) THEN StrictEquals(e.payload, EitherExtract(other)) ELSE FALSE
LeftEquals(e, other) ==
  IF EitherIsLeft(other) THEN StrictEquals(e.payload, EitherExtract(other)) ELSE FALSE
EitherEquals(e, other) == IF e.tag = "Left" THEN LeftEquals(e, other) ELSE RightEquals(e, other)

(* ---------------------------- Just, Nothing ---------------------------- *)
JustIsJust(m) == TRUE
NothingIsJust(m) == FALSE
MaybeIsJust(m) == IF m.tag = "Nothing" THEN NothingIsJust(m) ELSE JustIsJust(m)

JustMap(m, f) == Yield(Just(f[m.payload]), <<Invocation("fn", m.payload)>>)
NothingMap(m, f) == Yield(Nothing, <<>>)
MaybeMap(m, f) == IF m.tag = "Nothing" THEN NothingMap(m, f) ELSE JustMap(m, f)

JustChain(m, f) == Yield(f[m.payload], <<Invocation("fn", m.payload)>>)
NothingChain(m, f) == Yield(Nothing, <<>>)
MaybeChain(m, f) == IF m.tag = "Nothing" THEN NothingChain(m, f) ELSE JustChain(m, f)

JustEquals(m, other) ==
  IF MaybeIsJust(other) THEN StrictEquals(m.payload, MaybeExtract(other)) ELSE FALSE
NothingEquals(m, other) == MaybeIsNothing(other)
MaybeEquals(m, other) == IF m.tag = "Nothing" THEN NothingEquals(m, other) ELSE JustEquals(m, other)

\* variant: the predicate is read the wrong way round
JustFilter_Inverted(m, f) ==
  Yield(IF m.payload \in f THEN Nothing ELSE m, <<Invocation("fn", m.payload)>>)
\* fn(this.value) ? this : new Nothing()
JustFilter(m, f) ==
  Yield(IF m.payload \in f THEN m ELSE Nothing, <<Invocation("fn", m.payload)>>)
NothingFilter(m, f) == Yield(m, <<>>)
MaybeFilter(m, f) == IF m.tag = "Nothing" THEN NothingFilter(m, f) ELSE JustFilter(m, f)

(* ----------------------------- fromNullable ---------------------------- *)
\* null, and the values that are falsy without being null or undefined
Null == [kind |-> "null", atom |-> 0, items |-> <<>>]
Zero == Atom(0)
EmptyString == [kind |-> "string", atom |-> 0, items |-> <<>>]
BooleanFalse == [kind |-> "boolean", atom |-> 0, items |-> <<>>]
Falsy == {Zero, EmptyString, BooleanFalse}
Nullables == Payloads \cup Falsy \cup {Null, Undefined}

\* variant: !value
LooseEqualsNull_Not(value) == value \in Falsy \cup {Null, Undefined}
\* value == null
LooseEqualsNull(value) == value.kind \in {"null", "undefined"}

FromNullable(value) == IF LooseEqualsNull(value) THEN Nothing ELSE Just(value)

(* ------------------------ fromThrowable, tryCatch ---------------------- *)
\* what a call of a callback does: return a value or throw one
Returns(v) == [how |-> "return", value |-> v]
Throws(e) == [how |-> "throw", value |-> e]
Outcomes == {Returns(v) : v \in Payloads} \cup {Throws(e) : e \in Atoms}
\* the optional onError: absent, or a function from the caught value to
\* what the handler does with it
NoHandler == [given |-> FALSE, map |-> [e \in Atoms |-> Returns(e)]]
Handlers == {NoHandler} \cup {[given |-> TRUE, map |-> h] : h \in [Atoms -> Outcomes]}

\* try { return new Ok(fn()) } catch (e) { return new Err(onError ? onError(e) : e) }
\* variant: the handler is ignored
FromThrowable_NoHandler(fn_, onError) ==
  IF fn_.how = "return"
  THEN Yield(Ok(fn_.value), <<Invocation("fn", Undefined)>>)
  ELSE Yield(Err(fn_.value), <<Invocation("fn", Undefined)>>)
FromThrowable(fn_, onError) ==
  IF fn_.how = "return"
  THEN Yield(Ok(fn_.value), <<Invocation("fn", Undefined)>>)
  ELSE IF onError.given
       THEN LET mapped == onError.map[fn_.value] IN
              Yield(IF mapped.how = "return" THEN Err(mapped.value) ELSE Thrown(mapped.value),
                    <<Invocation("fn", Undefined), Invocation("onError", fn_.value)>>)
       ELSE Yield(Err(fn_.value), <<Invocation("fn", Undefined)>>)

TryCatch(fn_, onError) ==
  IF fn_.how = "return"
  THEN Yield(Right(fn_.value), <<Invocation("fn", Undefined)>>)
  ELSE IF onError.given
       THEN LET mapped == onError.map[fn_.value] IN
              Yield(IF mapped.how = "return" THEN Left(mapped.value) ELSE Thrown(mapped.value),
                    <<Invocation("fn", Undefined), Invocation("onError", fn_.value)>>)
       ELSE Yield(Left(fn_.value), <<Invocation("fn", Undefined)>>)

(* ------------------------------ actions -------------------------------- *)
\* a method is called on a freshly constructed receiver
Apply(receiver, step, out) ==
  /\ subject = NoReturn
  /\ subject' = receiver
  /\ steps' = <<step>>
  /\ current' = out.result
  /\ invoked' = out.invoked
  /\ UNCHANGED <<promise, callVars, frameVars, runVars>>

\* a method is called on the value the chain has produced
ApplyNext(step, out) ==
  /\ subject # NoReturn
  /\ steps' = Append(steps, step)
  /\ current' = out.result
  /\ invoked' = invoked \o out.invoked
  /\ UNCHANGED <<subject, promise, callVars, frameVars, runVars>>

\* the chain is over
MethodsFinish ==
  /\ subject # NoReturn
  /\ current.tag # "pending"
  /\ subject' = NoReturn
  /\ steps' = <<>>
  /\ current' = NoReturn
  /\ invoked' = <<>>
  /\ promise' = NoPromise
  /\ UNCHANGED <<callVars, frameVars, runVars>>

ResultMapCall ==
  /\ subject = NoReturn
  /\ \E r \in Results, f \in MapFns :
       Apply(r, Step("map", f, Undefined), ResultMap(r, f))

ResultMapErrCall ==
  /\ subject = NoReturn
  /\ \E r \in Results, f \in MapFns :
       Apply(r, Step("mapErr", f, Undefined), ResultMapErr(r, f))

ResultChainCall ==
  /\ subject = NoReturn
  /\ \E r \in Results, f \in [Payloads -> Results] :
       Apply(r, Step("chain", f, Undefined), ResultChain(r, f))

ResultValidateCall ==
  \/ /\ subject = NoReturn
     /\ \E r \in Results, predicate \in Predicates, error \in Atoms :
          Apply(r, Step("validate", predicate, error), ResultValidate(r, predicate, error))
  \/ /\ subject # NoReturn /\ subject \in Results
     /\ Len(steps) < MaxChain /\ steps[1].method = "validate"
     /\ \E predicate \in Predicates, error \in Atoms :
          ApplyNext(Step("validate", predicate, error), ResultValidate(current, predicate, error))

ResultEqualsCall ==
  /\ subject = NoReturn
  /\ \E r, other \in {Ok(v) : v \in ComparedPayloads} \cup {Err(v) : v \in ComparedPayloads} :
       Apply(r, Step("equals", Undefined, other), Yield(Bool(ResultEquals(r, other)), <<>>))

EitherMapCall ==
  /\ subject = NoReturn
  /\ \E e \in Eithers, f \in MapFns :
       Apply(e, Step("map", f, Undefined), EitherMap(e, f))

EitherMapLeftCall ==
  /\ subject = NoReturn
  /\ \E e \in Eithers, f \in MapFns :
       Apply(e, Step("mapLeft", f, Undefined), EitherMapLeft(e, f))

EitherChainCall ==
  /\ subject = NoReturn
  /\ \E e \in Eithers, f \in [Payloads -> Eithers] :
       Apply(e, Step("chain", f, Undefined), EitherChain(e, f))

EitherValidateCall ==
  \/ /\ subject = NoReturn
     /\ \E e \in Eithers, predicate \in Predicates, leftValue \in Atoms :
          Apply(e, Step("validate", predicate, leftValue), EitherValidate(e, predicate, leftValue))
  \/ /\ subject # NoReturn /\ subject \in Eithers
     /\ Len(steps) < MaxChain /\ steps[1].method = "validate"
     /\ \E predicate \in Predicates, leftValue \in Atoms :
          ApplyNext(Step("validate", predicate, leftValue), EitherValidate(current, predicate, leftValue))

EitherEqualsCall ==
  /\ subject = NoReturn
  /\ \E e, other \in {Right(v) : v \in ComparedPayloads} \cup {Left(v) : v \in ComparedPayloads} :
       Apply(e, Step("equals", Undefined, other), Yield(Bool(EitherEquals(e, other)), <<>>))

MaybeMapCall ==
  /\ subject = NoReturn
  /\ \E m \in Maybes, f \in MapFns :
       Apply(m, Step("map", f, Undefined), MaybeMap(m, f))

MaybeChainCall ==
  /\ subject = NoReturn
  /\ \E m \in Maybes, f \in [Payloads -> Maybes] :
       Apply(m, Step("chain", f, Undefined), MaybeChain(m, f))

MaybeEqualsCall ==
  /\ subject = NoReturn
  /\ \E m, other \in {Just(v) : v \in ComparedPayloads} \cup {Nothing} :
       Apply(m, Step("equals", Undefined, other), Yield(Bool(MaybeEquals(m, other)), <<>>))

MaybeFilterCall ==
  \/ /\ subject = NoReturn
     /\ \E m \in Maybes, f \in Predicates :
          Apply(m, Step("filter", f, Undefined), MaybeFilter(m, f))
  \/ /\ subject # NoReturn /\ subject \in Maybes
     /\ Len(steps) < MaxChain /\ steps[1].method = "filter"
     /\ \E f \in Predicates :
          ApplyNext(Step("filter", f, Undefined), MaybeFilter(current, f))

FromNullableCall ==
  /\ subject = NoReturn
  /\ \E value \in Nullables :
       Apply([tag |-> "function", payload |-> Undefined],
             Step("fromNullable", Undefined, value), Yield(FromNullable(value), <<>>))

\* the adapters have no receiver: the chain starts from the function
FromThrowableCall ==
  /\ subject = NoReturn
  /\ \E fn_ \in Outcomes, onError \in Handlers :
       Apply([tag |-> "function", payload |-> Undefined],
             Step("fromThrowable", fn_, onError), FromThrowable(fn_, onError))

TryCatchCall ==
  /\ subject = NoReturn
  /\ \E fn_ \in Outcomes, onError \in Handlers :
       Apply([tag |-> "function", payload |-> Undefined],
             Step("tryCatch", fn_, onError), TryCatch(fn_, onError))

NextMethods ==
  \/ ResultMapCall
  \/ ResultMapErrCall
  \/ ResultChainCall
  \/ ResultValidateCall
  \/ ResultEqualsCall
  \/ EitherMapCall
  \/ EitherMapLeftCall
  \/ EitherChainCall
  \/ EitherValidateCall
  \/ EitherEqualsCall
  \/ MaybeMapCall
  \/ MaybeChainCall
  \/ MaybeEqualsCall
  \/ MaybeFilterCall
  \/ FromNullableCall
  \/ FromThrowableCall
  \/ TryCatchCall
  \/ MethodsFinish

SpecMethods == Init /\ [][NextMethods]_vars

(* ====================== fromPromise, fromAsync ========================= *)
\* the promise returned by an async adapter
Pending == [tag |-> "pending", payload |-> Undefined]
Fulfilled(c) == [tag |-> "fulfilled", payload |-> c]
Rejected(e) == [tag |-> "rejected", payload |-> e]

\* the promise that is awaited; "thrown" stands for fn() of fromAsync
\* throwing before any promise exists
PendingPromise == [state |-> "pending", value |-> Undefined]
FulfilledWith(v) == [state |-> "fulfilled", value |-> v]
RejectedWith(e) == [state |-> "rejected", value |-> e]
ThrownBy(e) == [state |-> "thrown", value |-> e]
SettledPromises == {FulfilledWith(v) : v \in Payloads} \cup {RejectedWith(e) : e \in Atoms}
Promises == {PendingPromise} \cup SettledPromises

\* an async function fulfils its promise with what its body returns and
\* rejects it with what its body throws
Settle(out) ==
  Yield(IF out.result.tag = "throw" THEN Rejected(out.result.payload)
        ELSE Fulfilled(out.result),
        out.invoked)

\* variant: without a handler the rejection is passed on
ResultFromPromise_Rethrow(p, onError) ==
  IF p.state = "fulfilled"
  THEN Yield(Ok(p.value), <<>>)
  ELSE IF onError.given
       THEN LET mapped == onError.map[p.value] IN
              Yield(IF mapped.how = "return" THEN Err(mapped.value) ELSE Thrown(mapped.value),
                    <<Invocation("onError", p.value)>>)
       ELSE Yield(Thrown(p.value), <<>>)

\* try { const data = await promise; return new Ok(data) }
\* catch (e) { return new Err(onError ? onError(e) : e) }
ResultFromPromise(p, onError) ==
  IF p.state = "fulfilled"
  THEN Yield(Ok(p.value), <<>>)
  ELSE IF onError.given
       THEN LET mapped == onError.map[p.value] IN
              Yield(IF mapped.how = "return" THEN Err(mapped.value) ELSE Thrown(mapped.value),
                    <<Invocation("onError", p.value)>>)
       ELSE Yield(Err(p.value), <<>>)

\* try { const data = await fn(); return new Ok(data) } catch (e) { ... }
ResultFromAsync(p, onError) ==
  IF p.state = "fulfilled"
  THEN Yield(Ok(p.value), <<>>)
  ELSE IF onError.given
       THEN LET mapped == onError.map[p.value] IN
              Yield(IF mapped.how = "return" THEN Err(mapped.value) ELSE Thrown(mapped.value),
                    <<Invocation("onError", p.value)>>)
       ELSE Yield(Err(p.value), <<>>)

EitherFromPromise(p, onError) ==
  IF p.state = "fulfilled"
  THEN Yield(Right(p.value), <<>>)
  ELSE IF onError.given
       THEN LET mapped == onError.map[p.value] IN
              Yield(IF mapped.how = "return" THEN Left(mapped.value) ELSE Thrown(mapped.value),
                    <<Invocation("onError", p.value)>>)
       ELSE Yield(Left(p.value), <<>>)

\* variant: the handler runs inside a try of its own
EitherFromAsync_Guarded(p, onError) ==
  IF p.state = "fulfilled"
  THEN Yield(Right(p.value), <<>>)
  ELSE IF onError.given
       THEN Yield(Left(onError.map[p.value].value), <<Invocation("onError", p.value)>>)
       ELSE Yield(Left(p.value), <<>>)

EitherFromAsync(p, onError) ==
  IF p.state = "fulfilled"
  THEN Yield(Right(p.value), <<>>)
  ELSE IF onError.given
       THEN LET mapped == onError.map[p.value] IN
              Yield(IF mapped.how = "return" THEN Left(mapped.value) ELSE Thrown(mapped.value),
                    <<Invocation("onError", p.value)>>)
       ELSE Yield(Left(p.value), <<>>)

\* what fn of fromAsync does when called: throw, or return a promise
AsyncOutcomes == {Throws(e) : e \in Atoms} \cup {Returns(Undefined)}

\* an async adapter is called and runs up to its await
Suspend(method, fn_, onError, p, calls) ==
  /\ subject' = [tag |-> "function", payload |-> Undefined]
  /\ steps' = <<Step(method, fn_, onError)>>
  /\ promise' = p
  /\ current' = Pending
  /\ invoked' = calls
  /\ UNCHANGED <<callVars, frameVars, runVars>>

\* an async adapter is called and its body ends before any await
Complete(method, fn_, onError, out) ==
  /\ subject' = [tag |-> "function", payload |-> Undefined]
  /\ steps' = <<Step(method, fn_, onError)>>
  /\ promise' = NoPromise
  /\ current' = out.result
  /\ invoked' = out.invoked
  /\ UNCHANGED <<callVars, frameVars, runVars>>

\* the body of an async adapter continues after its await
Resume(method, out) ==
  /\ subject # NoReturn /\ steps[1].method = method
  /\ current.tag = "pending"
  /\ promise.state \in {"fulfilled", "rejected"}
  /\ current' = out.result
  /\ invoked' = invoked \o out.invoked
  /\ UNCHANGED <<subject, steps, promise, callVars, frameVars, runVars>>

\* the awaited promise is settled by whoever owns it
PromiseSettles ==
  /\ promise.state = "pending"
  /\ \E p \in SettledPromises : promise' = p
  /\ UNCHANGED <<subject, steps, current, invoked, callVars, frameVars, runVars>>

ResultFromPromiseCall ==
  /\ subject = NoReturn
  /\ \E p \in Promises, onError \in Handlers :
       Suspend("Result.fromPromise", Undefined, onError, p, <<>>)

ResultFromPromiseResume ==
  Resume("Result.fromPromise", Settle(ResultFromPromise(promise, steps[1].arg)))

ResultFromAsyncCall ==
  /\ subject = NoReturn
  /\ \E fn_ \in AsyncOutcomes, onError \in Handlers :
       IF fn_.how = "throw"
       THEN LET out == Settle(ResultFromAsync(ThrownBy(fn_.value), onError)) IN
              Complete("Result.fromAsync", fn_, onError,
                       Yield(out.result, <<Invocation("fn", Undefined)>> \o out.invoked))
       ELSE \E p \in Promises :
              Suspend("Result.fromAsync", fn_, onError, p, <<Invocation("fn", Undefined)>>)

ResultFromAsyncResume ==
  Resume("Result.fromAsync", Settle(ResultFromAsync(promise, steps[1].arg)))

EitherFromPromiseCall ==
  /\ subject = NoReturn
  /\ \E p \in Promises, onError \in Handlers :
       Suspend("Either.fromPromise", Undefined, onError, p, <<>>)

EitherFromPromiseResume ==
  Resume("Either.fromPromise", Settle(EitherFromPromise(promise, steps[1].arg)))

EitherFromAsyncCall ==
  /\ subject = NoReturn
  /\ \E fn_ \in AsyncOutcomes, onError \in Handlers :
       IF fn_.how = "throw"
       THEN LET out == Settle(EitherFromAsync(ThrownBy(fn_.value), onError)) IN
              Complete("Either.fromAsync", fn_, onError,
                       Yield(out.result, <<Invocation("fn", Undefined)>> \o out.invoked))
       ELSE \E p \in Promises :
              Suspend("Either.fromAsync", fn_, onError, p, <<Invocation("fn", Undefined)>>)

EitherFromAsyncResume ==
  Resume("Either.fromAsync", Settle(EitherFromAsync(promise, steps[1].arg)))

NextAsync ==
  \/ ResultFromPromiseCall
  \/ ResultFromPromiseResume
  \/ ResultFromAsyncCall
  \/ ResultFromAsyncResume
  \/ EitherFromPromiseCall
  \/ EitherFromPromiseResume
  \/ EitherFromAsyncCall
  \/ EitherFromAsyncResume
  \/ PromiseSettles
  \/ MethodsFinish

\* the job queue runs every continuation whose promise has settled
SpecAsync ==
  /\ Init /\ [][NextAsync]_vars
  /\ WF_vars(ResultFromPromiseResume)
  /\ WF_vars(ResultFromAsyncResume)
  /\ WF_vars(EitherFromPromiseResume)
  /\ WF_vars(EitherFromAsyncResume)

\* the adapters that capture exceptions, synchronous and asynchronous
NextAdapters ==
  \/ FromThrowableCall
  \/ TryCatchCall
  \/ NextAsync

SpecAdapters == Init /\ [][NextAdapters]_vars

(* ============================ tap, inspect ============================= *)
\* longest pipeline
MaxPipe == 3

\* a plain value passed down a pipeline
Plain(v) == [tag |-> "value", payload |-> v]

\* strings are sequences of characters
Char(c) == [kind |-> "char", atom |-> c, items |-> <<>>]
Str(chars) == [kind |-> "string", atom |-> 0, items |-> chars]
Colon == Char(58)
LetterA == Char(97)
\* `${label}:`
Template(label) == Str(label.items \o <<Colon>>)
\* the optional label: absent, or a string
Labels == {Undefined, EmptyString, Str(<<LetterA>>), Str(<<LetterA, Colon>>)}
\* if (label): undefined and the empty string are falsy
Truthy(label) == label.kind = "string" /\ label.items # <<>>

\* the steps of the pipelines: functions of the value
PipeFns ==
  {[v \in Payloads |-> w] : w \in Atoms}
    \cup {[v \in Payloads |-> IF v.kind = "atom" THEN Atom((v.atom % MaxAtom) + 1) ELSE Atom(1)]}
\* the side-effect functions given to tap: what they return is their own
\* business
TapFns == {[v \in Payloads |-> w] : w \in Atoms \cup {Undefined}}

\* variant: the result of the side-effect function is passed on
Tap_Result(fn_, value) == Yield(fn_[value], <<Invocation("fn", value)>>)
\* fn(value); return value
Tap(fn_, value) == Yield(value, <<Invocation("fn", value)>>)

\* variant: the label is always printed
Inspect_Always(label, value) ==
  Yield(value, <<Invocation("console.log",
                            IF label.kind = "string" THEN Arr(<<Template(label), value>>)
                            ELSE Arr(<<value>>))>>)
\* if (label) console.log(`${label}:`, value) else console.log(value);
\* return value
Inspect(label, value) ==
  Yield(value, <<Invocation("console.log",
                            IF Truthy(label) THEN Arr(<<Template(label), value>>)
                            ELSE Arr(<<value>>))>>)

\* a pipeline is started on a plain value
PipeCall ==
  /\ subject = NoReturn
  /\ \E v \in Payloads :
       /\ subject' = Plain(v)
       /\ current' = Plain(v)
  /\ steps' = <<>>
  /\ invoked' = <<>>
  /\ UNCHANGED <<promise, callVars, frameVars, runVars>>

\* the next step of the pipeline is an ordinary function
FunctionCall ==
  /\ subject.tag = "value" /\ Len(steps) < MaxPipe
  /\ \E f \in PipeFns :
       ApplyNext(Step("function", f, Undefined), Yield(Plain(f[current.payload]), <<>>))

TapCall ==
  /\ subject.tag = "value" /\ Len(steps) < MaxPipe
  /\ \E fn_ \in TapFns :
       LET out == Tap(fn_, current.payload) IN
         ApplyNext(Step("tap", fn_, Undefined), Yield(Plain(out.result), out.invoked))

InspectCall ==
  /\ subject.tag = "value" /\ Len(steps) < MaxPipe
  /\ \E label \in Labels :
       LET out == Inspect(label, current.payload) IN
         ApplyNext(Step("inspect", Undefined, label), Yield(Plain(out.result), out.invoked))

NextPipeline ==
  \/ PipeCall
  \/ FunctionCall
  \/ TapCall
  \/ InspectCall
  \/ MethodsFinish

SpecPipeline == Init /\ [][NextPipeline]_vars

(* ========================= interleaved calls =========================== *)
\* Calls of all, sequence and partition whose loop iterations interleave.
\* Arrays live in a heap and are known by their address, so that a push
\* is visible to everyone who holds the array.

\* longest input array of an interleaved call
ConcLen == 2
\* the calls in progress
Slots == {"a", "b"}
Families == {"Result", "Either"}

\* the containers of a family the interleaved calls are given
ConcElements(family) ==
  IF family = "Result" THEN {Ok(Atom(1)), Err(Atom(2))} ELSE {Right(Atom(1)), Left(Atom(2))}
ConcArrays(family) == UNION {[1..n -> ConcElements(family)] : n \in 0..ConcLen}

\* result.isErr() / either.isLeft()
IsFailure(family, c) == IF family = "Result" THEN ResultIsErr(c) ELSE EitherIsLeft(c)
\* result.extract() / either.extract()
Extract(family, c) == IF family = "Result" THEN ResultExtract(c) ELSE EitherExtract(c)
FailureTag(family) == IF family = "Result" THEN "Err" ELSE "Left"
SuccessTag(family) == IF family = "Result" THEN "Ok" ELSE "Right"

\* a returned value: a container holding a value (payload) or an array
\* (refs, one address), or partition's object (refs, two addresses)
Holding(tag, v) == [tag |-> tag, payload |-> v, refs |-> <<>>]
Referring(tag, addrs) == [tag |-> tag, payload |-> Undefined, refs |-> addrs]
NotReturned == Holding("none", Undefined)

\* array.push(v) on the array at address a
PushAt(h, a, v) == [h EXCEPT ![a] = Append(@, v)]

\* the locals of a call that has just bound its parameter and allocated
\* its accumulators at the addresses first and second (0: none)
Frame(family, name, inputAddr, first, second) ==
  [pc |-> "loop", family |-> family, fn |-> name, input |-> inputAddr, i |-> 1,
   values |-> first, errors |-> second, ret |-> NotReturned]

WithFrame(s, f) == [t \in (DOMAIN frames) \cup {s} |-> IF t = s THEN f ELSE frames[t]]

\* the caller passes a new array, or the array another call was given:
\* the array's address and the heap that holds it
PassedArrays(family) ==
  {[input |-> heapTop + 1, heap |-> Append(heap, xs)] : xs \in ConcArrays(family)}
    \cup {[input |-> frames[t].input, heap |-> heap] :
            t \in {u \in DOMAIN frames : frames[u].family = family}}

\* variant: the accumulators are hoisted out of the function, so a call
\* made while another all is running works on that call's arrays
InterleavedAllCall_Hoisted ==
  \E s \in Slots \ DOMAIN frames : \E family \in Families :
    \E passed \in PassedArrays(family) :
      LET inputAddr == passed.input
          h == passed.heap IN
          /\ IF \E t \in DOMAIN frames : frames[t].fn = "all"
             THEN LET t == CHOOSE u \in DOMAIN frames : frames[u].fn = "all" IN
                    /\ frames' = WithFrame(s, Frame(family, "all", inputAddr,
                                                    frames[t].values, frames[t].errors))
                    /\ heap' = h
                    /\ heapTop' = Len(h)
             ELSE /\ frames' = WithFrame(s, Frame(family, "all", inputAddr, Len(h) + 1, Len(h) + 2))
                  /\ heap' = h \o <<(<<>>), (<<>>)>>
                  /\ heapTop' = Len(h) + 2
          /\ UNCHANGED <<callVars, methodVars, runVars>>

\* const values = []; const errors = []
InterleavedAllCall ==
  \E s \in Slots \ DOMAIN frames : \E family \in Families :
    \E passed \in PassedArrays(family) :
      LET inputAddr == passed.input
          h == passed.heap IN
          /\ frames' = WithFrame(s, Frame(family, "all", inputAddr, Len(h) + 1, Len(h) + 2))
          /\ heap' = h \o <<(<<>>), (<<>>)>>
          /\ heapTop' = Len(h) + 2
          /\ UNCHANGED <<callVars, methodVars, runVars>>

\* one iteration of the for-of of all
InterleavedAllStep ==
  \E s \in DOMAIN frames :
    LET f == frames[s] IN
      /\ f.pc = "loop" /\ f.fn = "all" /\ f.i <= Len(heap[f.input])
      /\ LET result == heap[f.input][f.i] IN
           heap' = IF IsFailure(f.family, result)
                   THEN PushAt(heap, f.errors, Extract(f.family, result))
                   ELSE PushAt(heap, f.values, Extract(f.family, result))
      /\ frames' = [frames EXCEPT ![s].i = f.i + 1]
      /\ UNCHANGED <<heapTop, callVars, methodVars, runVars>>

\* if (errors.length > 0) return new Err(errors); return new Ok(values)
InterleavedAllReturn ==
  \E s \in DOMAIN frames :
    LET f == frames[s] IN
      /\ f.pc = "loop" /\ f.fn = "all" /\ f.i > Len(heap[f.input])
      /\ frames' = [frames EXCEPT
                      ![s].pc = "done",
                      ![s].ret = IF Len(heap[f.errors]) > 0
                                 THEN Referring(FailureTag(f.family), <<f.errors>>)
                                 ELSE Referring(SuccessTag(f.family), <<f.values>>)]
      /\ UNCHANGED <<heap, heapTop, callVars, methodVars, runVars>>

\* const values = []
InterleavedSequenceCall ==
  \E s \in Slots \ DOMAIN frames : \E family \in Families :
    \E passed \in PassedArrays(family) :
      LET inputAddr == passed.input
          h == passed.heap IN
          /\ frames' = WithFrame(s, Frame(family, "sequence", inputAddr, Len(h) + 1, 0))
          /\ heap' = Append(h, <<>>)
          /\ heapTop' = Len(h) + 1
          /\ UNCHANGED <<callVars, methodVars, runVars>>

\* one iteration of the for-of of sequence
InterleavedSequenceStep ==
  \E s \in DOMAIN frames :
    LET f == frames[s] IN
      /\ f.pc = "loop" /\ f.fn = "sequence" /\ f.i <= Len(heap[f.input])
      /\ LET result == heap[f.input][f.i] IN
           IF IsFailure(f.family, result)
           THEN /\ frames' = [frames EXCEPT
                                ![s].pc = "done",
                                ![s].ret = Holding(FailureTag(f.family), Extract(f.family, result))]
                /\ UNCHANGED heap
           ELSE /\ heap' = PushAt(heap, f.values, Extract(f.family, result))
                /\ frames' = [frames EXCEPT ![s].i = f.i + 1]
      /\ UNCHANGED <<heapTop, callVars, methodVars, runVars>>

\* return new Ok(values)
InterleavedSequenceReturn ==
  \E s \in DOMAIN frames :
    LET f == frames[s] IN
      /\ f.pc = "loop" /\ f.fn = "sequence" /\ f.i > Len(heap[f.input])
      /\ frames' = [frames EXCEPT
                      ![s].pc = "done",
                      ![s].ret = Referring(SuccessTag(f.family), <<f.values>>)]
      /\ UNCHANGED <<heap, heapTop, callVars, methodVars, runVars>>

\* the initial accumulator { oks: [], errs: [] } of reduce
InterleavedPartitionCall ==
  \E s \in Slots \ DOMAIN frames : \E family \in Families :
    \E passed \in PassedArrays(family) :
      LET inputAddr == passed.input
          h == passed.heap IN
          /\ frames' = WithFrame(s, Frame(family, "partition", inputAddr, Len(h) + 1, Len(h) + 2))
          /\ heap' = h \o <<(<<>>), (<<>>)>>
          /\ heapTop' = Len(h) + 2
          /\ UNCHANGED <<callVars, methodVars, runVars>>

\* one call of the reduce callback
InterleavedPartitionStep ==
  \E s \in DOMAIN frames :
    LET f == frames[s] IN
      /\ f.pc = "loop" /\ f.fn = "partition" /\ f.i <= Len(heap[f.input])
      /\ LET result == heap[f.input][f.i] IN
           heap' = IF IsFailure(f.family, result)
                   THEN PushAt(heap, f.errors, Extract(f.family, result))
                   ELSE PushAt(heap, f.values, Extract(f.family, result))
      /\ frames' = [frames EXCEPT ![s].i = f.i + 1]
      /\ UNCHANGED <<heapTop, callVars, methodVars, runVars>>

\* reduce returns the accumulator
InterleavedPartitionReturn ==
  \E s \in DOMAIN frames :
    LET f == frames[s] IN
      /\ f.pc = "loop" /\ f.fn = "partition" /\ f.i > Len(heap[f.input])
      /\ frames' = [frames EXCEPT
                      ![s].pc = "done",
                      ![s].ret = Referring("partition", <<f.values, f.errors>>)]
      /\ UNCHANGED <<heap, heapTop, callVars, methodVars, runVars>>

\* every call has returned and the callers drop what they hold
InterleavedFinish ==
  /\ DOMAIN frames # {}
  /\ \A s \in DOMAIN frames : frames[s].pc = "done"
  /\ frames' = NoFrames
  /\ heap' = <<>>
  /\ heapTop' = 0
  /\ UNCHANGED <<callVars, methodVars, runVars>>

NextInterleaved ==
  \/ InterleavedAllCall
  \/ InterleavedAllStep
  \/ InterleavedAllReturn
  \/ InterleavedSequenceCall
  \/ InterleavedSequenceStep
  \/ InterleavedSequenceReturn
  \/ InterleavedPartitionCall
  \/ InterleavedPartitionStep
  \/ InterleavedPartitionReturn
  \/ InterleavedFinish

SpecInterleaved == Init /\ [][NextInterleaved]_vars

(* ============================ whole calls ============================== *)
\* The combinators as functions from the input array to the returned
\* value, applied one after the other to the same array (the Either ones to
\* the same array with Ok read as Right and Err as Left).

\* for (const result of results) { ... } from element k on
RECURSIVE ResultAllFrom(_, _, _, _)
ResultAllFrom(xs, k, vs, es) ==
  IF k > Len(xs)
  THEN IF Len(es) > 0 THEN Err(Arr(es)) ELSE Ok(Arr(vs))
  ELSE IF ResultIsErr(xs[k])
       THEN ResultAllFrom(xs, k + 1, vs, Push(es, ResultExtract(xs[k])))
       ELSE ResultAllFrom(xs, k + 1, Push(vs, ResultExtract(xs[k])), es)
ResultAll(xs) == ResultAllFrom(xs, 1, <<>>, <<>>)

RECURSIVE ResultSequenceFrom(_, _, _)
ResultSequenceFrom(xs, k, vs) ==
  IF k > Len(xs)
  THEN Ok(Arr(vs))
  ELSE IF ResultIsErr(xs[k])
       THEN Err(ResultExtract(xs[k]))
       ELSE ResultSequenceFrom(xs, k + 1, Push(vs, ResultExtract(xs[k])))
\* variant: sequence written as a call of all
ResultSequence_ViaAll(xs) == ResultAll(xs)
ResultSequence(xs) == ResultSequenceFrom(xs, 1, <<>>)

\* results.reduce(callback, { oks: [], errs: [] }) from element k on
RECURSIVE ResultPartitionFrom(_, _, _)
ResultPartitionFrom(xs, k, acc) ==
  IF k > Len(xs)
  THEN acc
  ELSE IF ResultIsErr(xs[k])
       THEN ResultPartitionFrom(xs, k + 1,
                                [acc EXCEPT !.errs = Arr(Push(@.items, ResultExtract(xs[k])))])
       ELSE ResultPartitionFrom(xs, k + 1,
                                [acc EXCEPT !.oks = Arr(Push(@.items, ResultExtract(xs[k])))])
ResultPartition(xs) == ResultPartitionFrom(xs, 1, [oks |-> Arr(<<>>), errs |-> Arr(<<>>)])

RECURSIVE EitherAllFrom(_, _, _, _)
EitherAllFrom(xs, k, vs, es) ==
  IF k > Len(xs)
  THEN IF Len(es) > 0 THEN Left(Arr(es)) ELSE Right(Arr(vs))
  ELSE IF EitherIsLeft(xs[k])
       THEN EitherAllFrom(xs, k + 1, vs, Push(es, EitherExtract(xs[k])))
       ELSE EitherAllFrom(xs, k + 1, Push(vs, EitherExtract(xs[k])), es)
EitherAll(xs) == EitherAllFrom(xs, 1, <<>>, <<>>)

RECURSIVE EitherSequenceFrom(_, _, _)
EitherSequenceFrom(xs, k, vs) ==
  IF k > Len(xs)
  THEN Right(Arr(vs))
  ELSE IF EitherIsLeft(xs[k])
       THEN Left(EitherExtract(xs[k]))
       ELSE EitherSequenceFrom(xs, k + 1, Push(vs, EitherExtract(xs[k])))
EitherSequence(xs) == EitherSequenceFrom(xs, 1, <<>>)

RECURSIVE EitherPartitionFrom(_, _, _)
EitherPartitionFrom(xs, k, acc) ==
  IF k > Len(xs)
  THEN acc
  ELSE IF EitherIsLeft(xs[k])
       THEN EitherPartitionFrom(xs, k + 1,
                                [acc EXCEPT !.lefts = Arr(Push(@.items, EitherExtract(xs[k])))])
       ELSE EitherPartitionFrom(xs, k + 1,
                                [acc EXCEPT !.rights = Arr(Push(@.items, EitherExtract(xs[k])))])
\* variant: the two collections change places
EitherPartition_Swapped(xs) ==
  LET acc == EitherPartitionFrom(xs, 1, [lefts |-> Arr(<<>>), rights |-> Arr(<<>>)]) IN
    [lefts |-> acc.rights, rights |-> acc.lefts]
EitherPartition(xs) ==
  EitherPartitionFrom(xs, 1, [lefts |-> Arr(<<>>), rights |-> Arr(<<>>)])

\* the arrays the whole calls are applied to
RunElements == {Ok(v) : v \in Atoms} \cup {Err(v) : v \in Atoms}
\* the same container, and the same array, in the Either family
ToEither(c) == IF c.tag = "Ok" THEN Right(c.payload) ELSE Left(c.payload)
EithersOf(xs) == [k \in 1..Len(xs) |-> ToEither(xs[k])]

Combinators == {"Result.all", "Result.sequence", "Result.partition",
                "Either.all", "Either.sequence", "Either.partition"}
Ran(name) == name \in DOMAIN outcomes

\* once every combinator was applied to the array, the caller builds another
Give ==
  /\ \A name \in Combinators : Ran(name)
  /\ \E xs \in ArraysOf(RunElements) : args' = xs
  /\ outcomes' = NoResults
  /\ UNCHANGED <<callVars, methodVars, frameVars>>

\* a combinator is applied to the array and what it returns is kept
Run(name, value) ==
  /\ ~Ran(name)
  /\ outcomes' = [n \in (DOMAIN outcomes) \cup {name} |->
                    IF n = name THEN value ELSE outcomes[n]]
  /\ UNCHANGED <<args, callVars, methodVars, frameVars>>

ResultAllRun == Run("Result.all", ResultAll(args))
ResultSequenceRun == Run("Result.sequence", ResultSequence(args))
ResultPartitionRun == Run("Result.partition", ResultPartition(args))
EitherAllRun == Run("Either.all", EitherAll(EithersOf(args)))
EitherSequenceRun == Run("Either.sequence", EitherSequence(EithersOf(args)))
EitherPartitionRun == Run("Either.partition", EitherPartition(EithersOf(args)))

NextRuns ==
  \/ Give
  \/ ResultAllRun
  \/ ResultSequenceRun
  \/ ResultPartitionRun
  \/ EitherAllRun
  \/ EitherSequenceRun
  \/ EitherPartitionRun

SpecRuns == Init /\ [][NextRuns]_vars

(* ------------------- vocabulary of the properties ---------------------- *)
InFailureState(c) == c.tag \in {"Err", "Left", "Nothing"}
InSuccessState(c) == c.tag \in {"Ok", "Right", "Just"}
FailingOf(xs) == SelectSeq(xs, InFailureState)
SucceedingOf(xs) == SelectSeq(xs, InSuccessState)
PayloadsOf(xs) == [k \in 1..Len(xs) |-> xs[k].payload]
HasFailure(xs) == \E k \in 1..Len(xs) : InFailureState(xs[k])
\* index of the first failing element (only used when there is one)
FirstFailure(xs) == CHOOSE k \in 1..Len(xs) :
  /\ InFailureState(xs[k])
  /\ \A j \in 1..(k - 1) : ~InFailureState(xs[j])
Returned(name) == pc = "done" /\ fn = name
FailureTagOf(name) == IF name \in {"Result.all", "Result.sequence"} THEN "Err" ELSE "Left"
SuccessTagOf(name) == IF name \in {"Result.all", "Result.sequence"} THEN "Ok" ELSE "Right"
\* the indices on which a method was called during the current call
IndicesCalled(method) == {log[n].index : n \in {m \in 1..Len(log) : log[m].method = method}}
Discriminants == {"isErr", "isLeft", "isNothing"}
IndicesQueried == {log[n].index : n \in {m \in 1..Len(log) : log[m].method \in Discriminants}}

(* ------------------------------- C1 ------------------------------------ *)
\* C1: when at least one input element is in the failure state, Result.all
\* and Either.all return a failure whose payload is exactly the list of the
\* failing elements' payloads, one entry per failing element, in input order.
C1_AllCollectsEveryFailure ==
  \A name \in {"Result.all", "Either.all"} :
    (Returned(name) /\ HasFailure(input)) =>
      /\ ret.tag = FailureTagOf(name)
      /\ ret.payload = Arr(PayloadsOf(FailingOf(input)))
      /\ Len(ret.payload.items) = Cardinality({k \in 1..Len(input) : InFailureState(input[k])})

\* two failures out of payload order around a success, with a repeated payload
C1_Witness ==
  /\ Returned("Result.all")
  /\ Len(input) = 3
  /\ input[1] = Err(Atom(2)) /\ input[2] = Ok(Atom(1)) /\ input[3] = Err(Atom(1))
  /\ ret = Err(Arr(<<Atom(2), Atom(1)>>))

(* ------------------------------- C2 ------------------------------------ *)
\* C2: when every input element is in the success state, Result.all and
\* Either.all return a success whose payload is the list of the elements'
\* values, as long as the input and in input order.
C2_AllKeepsEveryValue ==
  \A name \in {"Result.all", "Either.all"} :
    (Returned(name) /\ ~HasFailure(input)) =>
      /\ ret.tag = SuccessTagOf(name)
      /\ ret.payload = Arr(PayloadsOf(input))
      /\ Len(ret.payload.items) = Len(input)

C2_Witness ==
  /\ Returned("Either.all")
  /\ Len(input) = 3
  /\ ~HasFailure(input)
  /\ input[1].payload = Atom(2) /\ input[2].payload = Atom(1)
  /\ ret.tag = "Right"

(* ------------------------------- C3 ------------------------------------ *)
\* C3: with failures at indices i1 < i2 < ..., sequence returns a failure
\* whose payload is the failure value at i1 itself (not wrapped in an
\* array), whatever comes after i1.
C3_SequenceReturnsFirstFailure ==
  \A name \in {"Result.sequence", "Either.sequence"} :
    (Returned(name) /\ HasFailure(input)) =>
      /\ ret.tag = FailureTagOf(name)
      /\ ret.payload = input[FirstFailure(input)].payload

\* a primitive first failure followed by a second, different failure
C3_Witness ==
  /\ Returned("Result.sequence")
  /\ Len(input) = 3
  /\ input[1].tag = "Ok" /\ input[2] = Err(Atom(1)) /\ input[3] = Err(Atom(2))
  /\ ret = Err(Atom(1))

(* ------------------------------- C4 ------------------------------------ *)
\* C4: with no element in the failure state, sequence returns a success
\* whose payload is the list of all values in input order, as long as the
\* input.
C4_SequenceKeepsEveryValue ==
  \A name \in {"Result.sequence", "Either.sequence"} :
    (Returned(name) /\ ~HasFailure(input)) =>
      /\ ret.tag = SuccessTagOf(name)
      /\ ret.payload = Arr(PayloadsOf(input))
      /\ Len(ret.payload.items) = Len(input)

C4_Witness ==
  /\ Returned("Either.sequence")
  /\ Len(input) = 3
  /\ ~HasFailure(input)
  /\ input[1].payload = Atom(2) /\ input[3].payload = Atom(1)
  /\ ret.tag = "Right"

(* ------------------------------- C5 ------------------------------------ *)
\* C5: partition returns two collections whose lengths add up to the
\* input's length; the successes hold the payloads of the Ok/Right
\* elements and the failures those of the Err/Left elements, each in the
\* relative order of the input.
C5_PartitionIsComplete ==
  /\ Returned("Result.partition") =>
       /\ ret.oks = Arr(PayloadsOf(SucceedingOf(input)))
       /\ ret.errs = Arr(PayloadsOf(FailingOf(input)))
       /\ Len(ret.oks.items) + Len(ret.errs.items) = Len(input)
  /\ Returned("Either.partition") =>
       /\ ret.rights = Arr(PayloadsOf(SucceedingOf(input)))
       /\ ret.lefts = Arr(PayloadsOf(FailingOf(input)))
       /\ Len(ret.rights.items) + Len(ret.lefts.items) = Len(input)

\* successes and failures interleaved
C5_Witness ==
  /\ Returned("Result.partition")
  /\ Len(input) = 3
  /\ input[1].tag = "Err" /\ input[2].tag = "Ok" /\ input[3].tag = "Err"
  /\ input[1].payload # input[3].payload
  /\ Len(ret.errs.items) = 2 /\ Len(ret.oks.items) = 1

(* ------------------------------- C6 ------------------------------------ *)
\* C6: on the empty array all and sequence return a success holding an
\* empty collection and partition returns two empty collections.
C6_EmptyInput ==
  (pc = "done" /\ input = <<>>) =>
    /\ fn \in {"Result.all", "Result.sequence"} => ret = Ok(Arr(<<>>))
    /\ fn \in {"Either.all", "Either.sequence"} => ret = Right(Arr(<<>>))
    /\ fn = "Maybe.all" => ret = Just(Arr(<<>>))
    /\ fn = "Result.partition" => ret = [oks |-> Arr(<<>>), errs |-> Arr(<<>>)]
    /\ fn = "Either.partition" => ret = [lefts |-> Arr(<<>>), rights |-> Arr(<<>>)]

C6_Witness ==
  /\ Returned("Result.all")
  /\ input = <<>>
  /\ ret.tag = "Ok"

(* ------------------------------- C7 ------------------------------------ *)
\* C7: sequence calls neither the discriminant nor extract on an element
\* that comes after the first failing one, and it is no longer in its loop
\* once it has visited a failing element.
C7_SequenceStopsAtFirstFailure ==
  fn \in {"Result.sequence", "Either.sequence"} =>
    /\ \A n \in 1..Len(log) : \A k \in 1..Len(input) :
         InFailureState(input[k]) => log[n].index <= k
    /\ pc = "loop" => \A k \in 1..Len(input) :
         InFailureState(input[k]) => k \notin IndicesQueried
    /\ (pc = "done" /\ HasFailure(input)) =>
         /\ log[Len(log)].index = FirstFailure(input)
         /\ values = PayloadsOf(SubSeq(input, 1, FirstFailure(input) - 1))

\* the first failure is followed by further elements
C7_Witness ==
  /\ Returned("Either.sequence")
  /\ Len(input) = 3
  /\ input[1].tag = "Left" /\ input[2].tag = "Right" /\ input[3].tag = "Left"
  /\ IndicesQueried = {1}

(* ------------------------------- C8 ------------------------------------ *)
\* C8 as stated: in Result.all, Either.all and Maybe.all alike, every
\* element of the input has its discriminant queried and its payload
\* extracted.
C8_Original_EveryAllInspectsEverything ==
  \A name \in {"Result.all", "Either.all", "Maybe.all"} :
    Returned(name) =>
      /\ IndicesQueried = 1..Len(input)
      /\ IndicesCalled("extract") = 1..Len(input)

\* C8 as amended: Result.all and Either.all query and extract every
\* element, including those after a failure; Maybe.all stops at the first
\* Nothing: it queries the elements up to and including it, extracts only
\* the Justs before it, and inspects nothing after it.
C8_AllInspection ==
  /\ \A name \in {"Result.all", "Either.all"} :
       Returned(name) =>
         /\ IndicesQueried = 1..Len(input)
         /\ IndicesCalled("extract") = 1..Len(input)
  /\ (Returned("Maybe.all") /\ HasFailure(input)) =>
       /\ IndicesQueried = 1..FirstFailure(input)
       /\ IndicesCalled("extract") = 1..(FirstFailure(input) - 1)
  /\ (Returned("Maybe.all") /\ ~HasFailure(input)) =>
       /\ IndicesQueried = 1..Len(input)
       /\ IndicesCalled("extract") = 1..Len(input)

\* a failure in first position, followed by a success and another failure
C8_Witness ==
  /\ Returned("Either.all")
  /\ Len(input) = 3
  /\ input[1].tag = "Left" /\ input[2].tag = "Right" /\ input[3].tag = "Left"
  /\ IndicesCalled("extract") = {1, 2, 3}

(* ------------------------------- C9 ------------------------------------ *)
\* C9 as stated: whenever all returns a failure, in the Result, Either and
\* Maybe families alike, the payload of that failure is an array.
C9_Original_FailurePayloadIsArray ==
  /\ (Returned("Result.all") /\ ResultIsErr(ret)) => ResultExtract(ret).kind = "array"
  /\ (Returned("Either.all") /\ EitherIsLeft(ret)) => EitherExtract(ret).kind = "array"
  /\ (Returned("Maybe.all") /\ MaybeIsNothing(ret)) => MaybeExtract(ret).kind = "array"

\* C9 as amended: whenever Result.all or Either.all returns a failure, its
\* payload is an array, even when exactly one element failed; the failure
\* of Maybe.all is Nothing, which carries no payload (extract yields
\* undefined).
C9_FailurePayloadShape ==
  /\ (Returned("Result.all") /\ ResultIsErr(ret)) => ResultExtract(ret).kind = "array"
  /\ (Returned("Either.all") /\ EitherIsLeft(ret)) => EitherExtract(ret).kind = "array"
  /\ (Returned("Maybe.all") /\ MaybeIsNothing(ret)) => MaybeExtract(ret) = Undefined

\* exactly one failing element, whose payload is a primitive
C9_Witness ==
  /\ Returned("Result.all")
  /\ Len(input) = 2
  /\ input[1].tag = "Ok" /\ input[2] = Err(Atom(1))
  /\ ret = Err(Arr(<<Atom(1)>>))

(* ------------------------------- C10 ----------------------------------- *)
\* C10: Maybe.all returns Just of the list of all values in input order
\* when every element is Just (Just of the empty list on the empty input)
\* and Nothing when any element is Nothing.
C10_MaybeAll ==
  Returned("Maybe.all") =>
    IF HasFailure(input)
    THEN ret = Nothing
    ELSE ret = Just(Arr(PayloadsOf(input)))

\* Justs on both sides of a Nothing
C10_Witness ==
  /\ Returned("Maybe.all")
  /\ Len(input) = 3
  /\ input[1].tag = "Just" /\ input[2].tag = "Nothing" /\ input[3].tag = "Just"
  /\ ret.tag = "Nothing"

(* ------------------------------- C11 ----------------------------------- *)
\* C11: all, sequence and partition never mutate their input: from the
\* entry of a call to its return the input array keeps its length, its
\* elements and their order, and every element keeps its state and payload.
C11_InputNeverMutated == [][pc = "loop" => input' = input]_vars

\* a call that has visited failing and succeeding elements and returned
C11_Witness ==
  /\ Returned("Either.partition")
  /\ Len(input) = 3
  /\ input[1] = Left(Atom(1)) /\ input[2] = Right(Arr(<<Atom(1)>>)) /\ input[3] = Right(Atom(2))
  /\ Len(log) = 6

(* ------------------------------- C12 ----------------------------------- *)
WellFormed(xs) == \A k \in 1..Len(xs) : xs[k] \notin Faulty
\* the n-th logged call is one that throws
CallThrows(n) ==
  \/ log[n].method \in Discriminants /\ QueryThrows(input[log[n].index])
  \/ log[n].method = "extract" /\ ExtractThrows(input[log[n].index])

\* C12: on well-formed input no combinator throws; an exception thrown by
\* an element's discriminant or extract call reaches the caller as it was
\* thrown, and a call that made a throwing call never returns a value.
C12_ExceptionsPropagateUnmodified ==
  /\ (pc # "idle" /\ WellFormed(input)) => pc # "thrown"
  /\ pc = "thrown" =>
       /\ i \in 1..Len(input)
       /\ input[i] \in Faulty
       /\ ret = Thrown(input[i].payload)
       /\ Len(log) > 0
       /\ log[Len(log)].index = i
       /\ CallThrows(Len(log))
  /\ pc \in {"loop", "done"} => \A n \in 1..Len(log) : ~CallThrows(n)

\* extract throws on the second element, after a failure was collected
C12_Witness ==
  /\ pc = "thrown" /\ fn = "Result.all"
  /\ Len(input) = 3
  /\ input[1] = Err(Atom(1)) /\ input[2] = ThrowsOnExtract(Atom(2)) /\ input[3] = ThrowsOnQuery(Atom(1))
  /\ ret = Thrown(Atom(2))

(* ------------------------------- C14 ----------------------------------- *)
\* how many of the first k elements are in the same state as element k
RankInState(xs, k) ==
  Cardinality({j \in 1..k : InFailureState(xs[j]) = InFailureState(xs[k])})

\* C14: in all's failure collection and in both collections of partition
\* the payload of input index k stands at the position given by the
\* success/failure pattern alone (its rank among the elements of the same
\* state), whatever the payload values are.
C14_OrderDependsOnlyOnPattern ==
  /\ \A name \in {"Result.all", "Either.all"} :
       (Returned(name) /\ HasFailure(input)) =>
         \A k \in 1..Len(input) : InFailureState(input[k]) =>
           ret.payload.items[RankInState(input, k)] = input[k].payload
  /\ Returned("Result.partition") =>
       \A k \in 1..Len(input) :
         IF InFailureState(input[k])
         THEN ret.errs.items[RankInState(input, k)] = input[k].payload
         ELSE ret.oks.items[RankInState(input, k)] = input[k].payload
  /\ Returned("Either.partition") =>
       \A k \in 1..Len(input) :
         IF InFailureState(input[k])
         THEN ret.lefts.items[RankInState(input, k)] = input[k].payload
         ELSE ret.rights.items[RankInState(input, k)] = input[k].payload

\* failures whose payloads decrease along the input
C14_Witness ==
  /\ Returned("Result.all")
  /\ Len(input) = 3
  /\ input[1] = Err(Atom(2)) /\ input[2] = Err(Atom(1)) /\ input[3] = Err(Arr(<<Atom(1)>>))
  /\ ret.payload.items[1] = Atom(2)

(* ------------------------------- C15 ----------------------------------- *)
KindsOf(vs) == [k \in 1..Len(vs) |-> vs[k].kind]
Homogeneous(xs) == \A j, k \in 1..Len(xs) : xs[j].payload.kind = xs[k].payload.kind

\* C15: the result is positional whether or not the payload types are
\* uniform: a success of all or sequence holds at position k a value of
\* the type of input k's value (the value itself), sequence's failure has
\* the type of the first failing payload, and partition's collections hold
\* the types of the matching inputs in input order.
C15_TypesArePositional ==
  /\ \A name \in {"Result.all", "Either.all", "Result.sequence", "Either.sequence", "Maybe.all"} :
       (Returned(name) /\ InSuccessState(ret)) =>
         /\ KindsOf(ret.payload.items) = KindsOf(PayloadsOf(input))
         /\ \A k \in 1..Len(input) : ret.payload.items[k] = input[k].payload
  /\ \A name \in {"Result.sequence", "Either.sequence"} :
       (Returned(name) /\ InFailureState(ret)) =>
         ret.payload.kind = input[FirstFailure(input)].payload.kind
  /\ \A name \in {"Result.all", "Either.all"} :
       (Returned(name) /\ InFailureState(ret)) =>
         KindsOf(ret.payload.items) = KindsOf(PayloadsOf(FailingOf(input)))
  /\ Returned("Result.partition") =>
       /\ KindsOf(ret.oks.items) = KindsOf(PayloadsOf(SucceedingOf(input)))
       /\ KindsOf(ret.errs.items) = KindsOf(PayloadsOf(FailingOf(input)))
  /\ Returned("Either.partition") =>
       /\ KindsOf(ret.rights.items) = KindsOf(PayloadsOf(SucceedingOf(input)))
       /\ KindsOf(ret.lefts.items) = KindsOf(PayloadsOf(FailingOf(input)))

\* a heterogeneous input: a primitive at one position, an array at another
C15_Witness ==
  /\ Returned("Result.all")
  /\ Len(input) = 2
  /\ ~Homogeneous(input)
  /\ input[1] = Ok(Atom(2)) /\ input[2] = Ok(Arr(<<Atom(1)>>))
  /\ KindsOf(ret.payload.items) = <<"atom", "array">>

(* ---------------- vocabulary of the single-value claims ----------------- *)
\* the chain in progress consists of calls of this method only
ChainOf(method) ==
  /\ subject # NoReturn
  /\ \A k \in 1..Len(steps) : steps[k].method = method
\* one call of this method on a fresh receiver
OneCall(method) == ChainOf(method) /\ Len(steps) = 1
\* a failure of the receiver's family carrying e
FailureLike(c, e) == IF c.tag \in {"Ok", "Err"} THEN Err(e) ELSE Left(e)
\* a success of the receiver's family holding v
SuccessLike(c, v) ==
  IF c.tag \in {"Ok", "Err"} THEN Ok(v)
  ELSE IF c.tag \in {"Right", "Left"} THEN Right(v) ELSE Just(v)
\* the validations of the chain that the value v does not pass
FailingValidations(v) == {k \in 1..Len(steps) : v \notin steps[k].fn}
FirstOf(S) == CHOOSE k \in S : \A j \in S : k <= j
True == Bool(TRUE)
False == Bool(FALSE)

\* C16: validate on a success returns the success unchanged when the
\* predicate holds and a failure carrying the given error when it does not;
\* on a failure it returns the failure unchanged and does not run the
\* predicate. A chain of validations on a success therefore yields the
\* error of the first failing validation in chain order (no later predicate
\* is run), or the original success when all pass.
C16_ValidateChain ==
  ChainOf("validate") =>
    IF InFailureState(subject)
    THEN current = subject /\ invoked = <<>>
    ELSE LET v == subject.payload
             bad == FailingValidations(v) IN
           IF bad = {}
           THEN /\ current = subject
                /\ invoked = [k \in 1..Len(steps) |-> Invocation("predicate", v)]
           ELSE /\ current = FailureLike(subject, steps[FirstOf(bad)].arg)
                /\ invoked = [k \in 1..FirstOf(bad) |-> Invocation("predicate", v)]

\* two validations fail with different errors: the first one's error is kept
C16_Witness ==
  /\ ChainOf("validate") /\ Len(steps) = 2
  /\ subject = Right(Atom(2))
  /\ FailingValidations(subject.payload) = {1, 2}
  /\ steps[1].arg = Atom(1) /\ steps[2].arg = Atom(2)
  /\ current = Left(Atom(1))

\* C17: map and chain on a failure (Err, Left, Nothing) never invoke the
\* callback and return a failure with the same payload; on a success map
\* returns a success holding fn(value) and chain returns exactly fn(value);
\* mapErr and mapLeft on a success never invoke the callback and keep the
\* value.
C17_MapAndChain ==
  /\ (OneCall("map") \/ OneCall("chain")) =>
       IF InFailureState(subject)
       THEN invoked = <<>> /\ current = subject
       ELSE /\ invoked = <<Invocation("fn", subject.payload)>>
            /\ current = IF steps[1].method = "map"
                         THEN SuccessLike(subject, steps[1].fn[subject.payload])
                         ELSE steps[1].fn[subject.payload]
  /\ (OneCall("mapErr") \/ OneCall("mapLeft")) =>
       (InSuccessState(subject) => invoked = <<>> /\ current = subject)

\* chain on an Err with a callback that would have turned it into an Ok
C17_Witness ==
  /\ OneCall("chain")
  /\ subject = Err(Atom(1))
  /\ steps[1].fn[Atom(1)] = Ok(Atom(2))
  /\ current = Err(Atom(1))
  /\ invoked = <<>>

Observed(f) ==
  [tag |-> f.ret.tag, payload |-> f.ret.payload,
   arrays |-> [k \in 1..Len(f.ret.refs) |-> heap[f.ret.refs[k]]]]
\* what the call returns when it runs alone (C1..C6)
AloneResult(family, name, xs) ==
  IF name = "all"
  THEN IF HasFailure(xs)
       THEN [tag |-> FailureTag(family), payload |-> Undefined,
             arrays |-> <<PayloadsOf(FailingOf(xs))>>]
       ELSE [tag |-> SuccessTag(family), payload |-> Undefined, arrays |-> <<PayloadsOf(xs)>>]
  ELSE IF name = "sequence"
  THEN IF HasFailure(xs)
       THEN [tag |-> FailureTag(family), payload |-> xs[FirstFailure(xs)].payload,
             arrays |-> <<>>]
       ELSE [tag |-> SuccessTag(family), payload |-> Undefined, arrays |-> <<PayloadsOf(xs)>>]
  ELSE [tag |-> "partition", payload |-> Undefined,
        arrays |-> <<PayloadsOf(SucceedingOf(xs)), PayloadsOf(FailingOf(xs))>>]
RefsOf(f) == {f.ret.refs[k] : k \in 1..Len(f.ret.refs)}
\* the arrays a call works on
AccumulatorsOf(f) == {f.values, f.errors} \ {0}

\* C13: calls of all, sequence and partition share no mutable state: when
\* two calls (on the same or on different input arrays) are interleaved
\* iteration by iteration, each returns exactly what it returns when run
\* alone, and the arrays of its result are freshly allocated, distinct from
\* every input array and from every array of the other call.
C13_CallsShareNoState ==
  \A s \in DOMAIN frames :
    frames[s].pc = "done" =>
      /\ Observed(frames[s]) =
           AloneResult(frames[s].family, frames[s].fn, heap[frames[s].input])
      /\ Cardinality(RefsOf(frames[s])) = Len(frames[s].ret.refs)
      /\ \A a \in RefsOf(frames[s]) :
           /\ \A t \in DOMAIN frames : a # frames[t].input
           /\ \A t \in (DOMAIN frames) \ {s} :
                a \notin RefsOf(frames[t]) \cup AccumulatorsOf(frames[t])

\* call b was made first, on the array call a was given too; a has run to
\* its end while b is in the middle of its loop
C13_Witness ==
  /\ DOMAIN frames = {"a", "b"}
  /\ frames["a"].input = frames["b"].input
  /\ Len(heap[frames["a"].input]) = 2
  /\ frames["b"].values < frames["a"].values
  /\ frames["a"].pc = "done" /\ frames["a"].fn = "all"
  /\ frames["b"].pc = "loop" /\ frames["b"].fn = "all" /\ frames["b"].i = 2
  /\ frames["a"].ret.tag = "Err"

(* ------------------------------- C21 ----------------------------------- *)
AsyncAdapters ==
  {"Result.fromPromise", "Result.fromAsync", "Either.fromPromise", "Either.fromAsync"}
\* an async adapter has been called and its promise is still held
AsyncCall == subject # NoReturn /\ steps[1].method \in AsyncAdapters
\* the family of the adapter that was called
AdapterFamily ==
  IF steps[1].method \in {"Result.fromPromise", "Result.fromAsync", "fromThrowable"}
  THEN Ok(Undefined) ELSE Right(Undefined)
\* what the adapter's try block met: the wrapped promise, or fn's throw
Wrapped == IF promise.state = "none" THEN ThrownBy(steps[1].fn.value) ELSE promise
\* the supplied handler throws on e
HandlerThrowsOn(e) == steps[1].arg.given /\ steps[1].arg.map[e].how = "throw"

\* the returned promise stays pending until the wrapped promise has settled
\* (or fn has thrown); then it is fulfilled with a success holding v, or
\* with a failure holding onError(e), or e without onError; it is rejected
\* only when onError throws
C21_Resolution ==
  AsyncCall =>
    /\ current.tag \in {"pending", "fulfilled", "rejected"}
    /\ current.tag # "pending" =>
         /\ Wrapped.state \in {"fulfilled", "rejected", "thrown"}
         /\ IF Wrapped.state = "fulfilled"
            THEN /\ current.tag = "fulfilled"
                 /\ current.payload = SuccessLike(AdapterFamily, Wrapped.value)
            ELSE IF ~steps[1].arg.given
            THEN /\ current.tag = "fulfilled"
                 /\ current.payload = FailureLike(AdapterFamily, Wrapped.value)
            ELSE IF ~HandlerThrowsOn(Wrapped.value)
            THEN /\ current.tag = "fulfilled"
                 /\ current.payload =
                      FailureLike(AdapterFamily, steps[1].arg.map[Wrapped.value].value)
            ELSE current.tag = "rejected"
C21_WrappedSettled == AsyncCall /\ promise.state \in {"fulfilled", "rejected"}
C21_ReturnedSettled == current.tag \in {"fulfilled", "rejected"}

\* C21: the promise returned by fromPromise and fromAsync eventually
\* settles whenever the wrapped promise settles and, provided onError does
\* not throw, never rejects: it resolves to a success holding v when the
\* wrapped promise fulfils with v and to a failure holding onError(e) (e
\* without onError) when it rejects with e; fromAsync also turns a
\* synchronous throw of fn into a failure.
C21_AsyncAdapters ==
  /\ []C21_Resolution
  /\ C21_WrappedSettled ~> C21_ReturnedSettled

\* the promise returned by fn rejects with 1 and the handler maps it to 2
C21_Witness ==
  /\ AsyncCall
  /\ steps[1].method = "Either.fromAsync"
  /\ promise = RejectedWith(Atom(1))
  /\ steps[1].arg.given
  /\ steps[1].arg.map[Atom(1)] = Returns(Atom(2))
  /\ current.tag = "fulfilled"
  /\ current.payload = Left(Atom(2))

(* ------------------------------- C30 ----------------------------------- *)
\* C30: the adapters protect only the wrapped computation, not the error
\* mapper: when fn throws (or the promise rejects) and the supplied onError
\* itself throws e2, fromThrowable and tryCatch throw e2 to the caller and
\* the promise returned by fromPromise and fromAsync rejects with e2; no
\* failure container is produced.
C30_HandlerIsNotProtected ==
  /\ (OneCall("fromThrowable") \/ OneCall("tryCatch")) =>
       ((steps[1].fn.how = "throw" /\ HandlerThrowsOn(steps[1].fn.value)) =>
          /\ current = Thrown(steps[1].arg.map[steps[1].fn.value].value)
          /\ invoked = <<Invocation("fn", Undefined),
                         Invocation("onError", steps[1].fn.value)>>)
  /\ AsyncCall =>
       ((/\ current.tag # "pending"
         /\ Wrapped.state \in {"rejected", "thrown"}
         /\ HandlerThrowsOn(Wrapped.value)) =>
          /\ current.tag = "rejected"
          /\ current.payload = steps[1].arg.map[Wrapped.value].value)

\* fn of fromAsync throws 1 and the handler throws 2: the promise rejects
\* with 2
C30_Witness ==
  /\ AsyncCall
  /\ steps[1].method = "Either.fromAsync"
  /\ steps[1].fn = Throws(Atom(1))
  /\ steps[1].arg.given
  /\ steps[1].arg.map[Atom(1)] = Throws(Atom(2))
  /\ current = Rejected(Atom(2))

(* ------------------------------- C22 ----------------------------------- *)
\* C22: fromNullable(value) returns Nothing exactly when value is null or
\* undefined, and otherwise returns Just holding that same value, also for
\* the falsy values 0, the empty string and false.
C22_FromNullable ==
  OneCall("fromNullable") =>
    LET value == steps[1].arg IN
      /\ current = Nothing <=> value \in {Null, Undefined}
      /\ value \notin {Null, Undefined} => current = Just(value)

\* fromNullable(0)
C22_Witness ==
  /\ OneCall("fromNullable")
  /\ steps[1].arg = Zero
  /\ current = Just(Zero)

(* ------------------------------- C23 ----------------------------------- *)
\* C23: filter(fn) on Just(v) returns that Just unchanged when fn(v) is
\* true and Nothing when it is false; on Nothing it returns Nothing without
\* running fn. A chain of filters yields Just(v) iff every predicate holds
\* of v, and no predicate is run after the first that fails.
C23_FilterChain ==
  ChainOf("filter") =>
    IF subject = Nothing
    THEN current = Nothing /\ invoked = <<>>
    ELSE LET v == subject.payload
             bad == FailingValidations(v) IN
           /\ current = subject <=> bad = {}
           /\ bad # {} => current = Nothing
           /\ invoked = [k \in 1..(IF bad = {} THEN Len(steps) ELSE FirstOf(bad)) |->
                           Invocation("fn", v)]

\* the first filter keeps Just(2), the second turns it into Nothing
C23_Witness ==
  /\ ChainOf("filter") /\ Len(steps) = 2
  /\ subject = Just(Atom(2))
  /\ FailingValidations(Atom(2)) = {2}
  /\ current = Nothing
  /\ Len(invoked) = 2

(* ---------------------------- C24, C25 --------------------------------- *)
\* the value a pipeline holds after its first k steps when tap and inspect
\* pass their argument on
RECURSIVE ValueAfter(_)
ValueAfter(k) ==
  IF k = 0 THEN subject.payload
  ELSE IF steps[k].method = "function" THEN steps[k].fn[ValueAfter(k - 1)]
  ELSE ValueAfter(k - 1)
InPipeline == subject.tag = "value"
\* the invocations of one callback, oldest first
InvocationsOf(callback) == SelectSeq(invoked, LAMBDA c : c.callback = callback)
\* the steps of one kind, by position, first to last
RECURSIVE StepsOf(_, _)
StepsOf(method, k) ==
  IF k = 0 THEN <<>>
  ELSE IF steps[k].method = method THEN Append(StepsOf(method, k - 1), k)
  ELSE StepsOf(method, k - 1)

\* C24: tap(fn)(value) invokes fn exactly once with value, ignores what fn
\* returns and returns the very same value; in a pipeline with several taps
\* the side effects occur in pipeline order, each tap observing the value
\* produced by the step just before it.
C24_Tap ==
  InPipeline =>
    LET taps == StepsOf("tap", Len(steps)) IN
      /\ current = Plain(ValueAfter(Len(steps)))
      /\ InvocationsOf("fn") =
           [n \in 1..Len(taps) |-> Invocation("fn", ValueAfter(taps[n] - 1))]

\* tap, a function that changes the value, tap: the taps saw 1 then 2, and
\* what the side-effect functions returned (2 and 1) is nowhere
C24_Witness ==
  /\ InPipeline /\ Len(steps) = 3
  /\ subject = Plain(Atom(1))
  /\ steps[1].method = "tap" /\ steps[1].fn[Atom(1)] = Atom(2)
  /\ steps[2].method = "function" /\ steps[2].fn[Atom(1)] = Atom(2)
  /\ steps[3].method = "tap" /\ steps[3].fn[Atom(2)] = Atom(1)
  /\ invoked = <<Invocation("fn", Atom(1)), Invocation("fn", Atom(2))>>
  /\ current = Plain(Atom(2))

\* C25 as stated: inspect(label)(value) writes exactly one console.log
\* record per applied value and returns the value unchanged; when a label
\* is provided the record is (`<label>:`, value), and when no label is
\* provided the record is (value) alone.
C25_Original_LabelProvided ==
  InPipeline =>
    LET inspects == StepsOf("inspect", Len(steps)) IN
      /\ current = Plain(ValueAfter(Len(steps)))
      /\ InvocationsOf("console.log") =
           [n \in 1..Len(inspects) |->
              LET label == steps[inspects[n]].arg
                  value == ValueAfter(inspects[n] - 1) IN
                Invocation("console.log",
                           IF label # Undefined THEN Arr(<<Template(label), value>>)
                           ELSE Arr(<<value>>))]

\* C25, what the code does: one console.log record per applied value, the
\* value returned unchanged; the record is (`<label>:`, value) when the
\* label is a non-empty string and (value) alone when the label is absent
\* or the empty string.
C25_Inspect ==
  InPipeline =>
    LET inspects == StepsOf("inspect", Len(steps)) IN
      /\ current = Plain(ValueAfter(Len(steps)))
      /\ InvocationsOf("console.log") =
           [n \in 1..Len(inspects) |->
              LET label == steps[inspects[n]].arg
                  value == ValueAfter(inspects[n] - 1) IN
                Invocation("console.log",
                           IF label \notin {Undefined, EmptyString}
                           THEN Arr(<<Template(label), value>>)
                           ELSE Arr(<<value>>))]

\* inspect("")(1) logs the value alone
C25_Witness ==
  /\ InPipeline /\ Len(steps) = 1
  /\ steps[1].method = "inspect" /\ steps[1].arg = EmptyString
  /\ subject = Plain(Atom(1))
  /\ invoked = <<Invocation("console.log", Arr(<<Atom(1)>>))>>

(* ------------------------------- C26 ----------------------------------- *)
\* the calls made on elements: indices never decrease, an index occurs at
\* most twice, first for the discriminant and then for extract, and every
\* extract comes right after the discriminant of the same element
SingleForwardPass ==
  /\ \A n \in 1..Len(log) : log[n].method \in Discriminants \cup {"extract"}
  /\ \A n \in 1..(Len(log) - 1) : log[n].index <= log[n + 1].index
  /\ \A n, m \in 1..Len(log) :
       (n < m /\ log[n].index = log[m].index) =>
         log[n].method \in Discriminants /\ log[m].method = "extract"
  /\ \A m \in 1..Len(log) :
       log[m].method = "extract" =>
         m > 1 /\ log[m - 1].index = log[m].index /\ log[m - 1].method \in Discriminants
  /\ \A n \in 1..Len(log) : log[n].index \in 1..Len(input)
\* a call in progress stays the call of the same combinator on the same
\* array until it has returned
NoNestedCall == pc = "loop" => fn' = fn /\ input' = input

\* C26: every combinator makes a single forward pass: elements are visited
\* in strictly increasing index order, each visited element has its
\* discriminant queried before its payload is extracted, each is queried
\* and extracted at most once, and no combinator calls another.
C26_SinglePass == []SingleForwardPass /\ [][NoNestedCall]_vars

\* Maybe.all on [Just, Nothing, Just]: queried 1, extracted 1, queried 2
C26_Witness ==
  /\ Returned("Maybe.all")
  /\ Len(input) = 3
  /\ log = <<Called("isNothing", 1), Called("extract", 1), Called("isNothing", 2)>>

(* ------------------------------- C27 ----------------------------------- *)
\* the number of elements whose state was asked for
Inspections == Len(SelectSeq(log, LAMBDA c : c.method \in Discriminants))
\* all and partition of Result and Either have inspected every element
\* when they return; sequence has inspected the elements up to and
\* including the first failing one, or all of them
InspectionCounts ==
  /\ \A name \in {"Result.all", "Either.all", "Result.partition", "Either.partition"} :
       Returned(name) => Inspections = Len(input)
  /\ \A name \in {"Result.sequence", "Either.sequence"} :
       Returned(name) =>
         Inspections = IF HasFailure(input) THEN FirstFailure(input) ELSE Len(input)
  /\ pc # "thrown"

Agree(all_, sequence_, partition_, successTag, failureTag, successes, failures) ==
  /\ all_.tag = successTag <=> sequence_.tag = successTag
  /\ all_.tag = successTag <=> failures.items = <<>>
  /\ all_.tag \in {successTag, failureTag} /\ sequence_.tag \in {successTag, failureTag}
  /\ IF all_.tag = successTag
     THEN /\ all_.payload = successes
          /\ sequence_.payload = successes
     ELSE /\ all_.payload = failures
          /\ sequence_.payload = all_.payload.items[1]

\* C28: for every input array of one family the three combinators agree:
\* all is a success iff sequence is a success iff partition's failures are
\* empty; then the success payloads of all and sequence equal partition's
\* successes; otherwise all's failure payload equals partition's failures
\* and sequence's failure payload is the first entry of all's.
C28_CombinatorsAgree ==
  /\ (Ran("Result.all") /\ Ran("Result.sequence") /\ Ran("Result.partition")) =>
       Agree(outcomes["Result.all"], outcomes["Result.sequence"], outcomes["Result.partition"],
             "Ok", "Err", outcomes["Result.partition"].oks, outcomes["Result.partition"].errs)
  /\ (Ran("Either.all") /\ Ran("Either.sequence") /\ Ran("Either.partition")) =>
       Agree(outcomes["Either.all"], outcomes["Either.sequence"], outcomes["Either.partition"],
             "Right", "Left", outcomes["Either.partition"].rights,
             outcomes["Either.partition"].lefts)

\* [Ok(1), Err(2), Err(1)]: all fails with [2, 1], sequence with 2
C28_Witness ==
  /\ args = <<Ok(Atom(1)), Err(Atom(2)), Err(Atom(1))>>
  /\ Ran("Result.all") /\ Ran("Result.sequence") /\ Ran("Result.partition")
  /\ outcomes["Result.all"] = Err(Arr(<<Atom(2), Atom(1)>>))
  /\ outcomes["Result.sequence"] = Err(Atom(2))
  /\ outcomes["Result.partition"].oks = Arr(<<Atom(1)>>)

\* C29: the Result combinators and the Either combinators are the same
\* operations up to renaming: with Ok read as Right and Err as Left (oks as
\* rights, errs as lefts), what Result.all, Result.sequence and
\* Result.partition return on an array is the image of what Either.all,
\* Either.sequence and Either.partition return on the mapped array.
C29_ResultIsEitherRenamed ==
  /\ (Ran("Result.all") /\ Ran("Either.all")) =>
       ToEither(outcomes["Result.all"]) = outcomes["Either.all"]
  /\ (Ran("Result.sequence") /\ Ran("Either.sequence")) =>
       ToEither(outcomes["Result.sequence"]) = outcomes["Either.sequence"]
  /\ (Ran("Result.partition") /\ Ran("Either.partition")) =>
       /\ outcomes["Result.partition"].oks = outcomes["Either.partition"].rights
       /\ outcomes["Result.partition"].errs = outcomes["Either.partition"].lefts

\* partition of both families on [Err(1), Ok(2)]
C29_Witness ==
  /\ args = <<Err(Atom(1)), Ok(Atom(2))>>
  /\ Ran("Result.partition") /\ Ran("Either.partition")
  /\ outcomes["Either.partition"].lefts = Arr(<<Atom(1)>>)
  /\ outcomes["Result.partition"].oks = Arr(<<Atom(2)>>)
====
